---- MODULE Spec2Model ----
(***************************************************************************)
(* A model of the TallyCodeEditor core: the XML codec and sanitizer        *)
(* (lib/xmlUtils.js), the document store (lib/store.js) and the row        *)
(* flattening engine (components/DataTable.jsx).                           *)
(*                                                                         *)
(* JavaScript strings are sequences of one-character strings, so that      *)
(* toLowerCase, join, split, startsWith, escaping and parsing are computed *)
(* character by character.  JavaScript values are tagged records of one    *)
(* shape (t, s, kv, items); an object keeps its keys in insertion order.   *)
(***************************************************************************)
EXTENDS Integers, Sequences, FiniteSets, TLC

VARIABLES
    \* ---- flattening engine (DataTableContent) ----
    data,          \* the collection shown as a table (a JS array)
    headers,       \* the column definitions of the table
    pathPrefix,    \* the path of the collection in the document
    allFlatRows,   \* data.flatMap(flattenRow)
    flatPc,        \* "input" before the flattening, "done" after it
    \* ---- sanitizer (cleanXML) ----
    xmlString,     \* the raw text handed to cleanXML
    firstClean,    \* cleanXML(xmlString)
    secondClean,   \* cleanXML(firstClean.cleaned)
    cleanPc,       \* "input", "cleaned", "recleaned"
    \* ---- codec (parseXML, jsonToXml) ----
    xmlSource,     \* the text handed to parseXML
    decoded,       \* parseXML(xmlSource)
    encoded,       \* jsonToXml of the decoded document
    reparsed,      \* parseXML(encoded)
    codecPc,       \* "input", "decoded", "failed", "encoded", "reparsed"
    \* ---- the store (lib/store.js) ----
    fileName,
    xmlDoc,                  \* null, or {doc, rootName, originalXml}
    viewingNodePath,         \* null, or the path of the node shown
    viewingHistory,          \* the paths shown before, oldest first
    nodeForColumnSelection,  \* null, or {path, parentPath, data}
    tableColumns,            \* pathKey -> column definitions
    tableFilters,            \* pathKey -> headerKey -> filter value
    invalidCharsRemoved,
    cleaningLog,
    revoked,       \* the state the store holds is a revoked immer draft
    thrown,        \* the exception the last store action threw, "" if none
    warned,        \* the last store action wrote a console warning
    call,          \* the last store action and its arguments
    \* ---- FileUploader ----
    reading,       \* the file whose text is being read, NoFile if none
    loading,
    error,
    \* ---- path lookups ----
    lookupDoc,     \* the document a path is resolved in
    lookupPath,    \* a path of names
    lookupVariant, \* the same names in another letter case
    lookupResult,  \* the values found at the two paths
    lookupPc,      \* "input", then the lookup that ran
    \* ---- filter queries (lib/filterParser.js) ----
    filterQuery,   \* the text typed into a column filter
    cellValue,     \* the value of the cell tested
    conditions,    \* parseFilterQuery(filterQuery)
    passes,        \* testValue(cellValue, conditions)
    filterPc,      \* "input", "parsed", "tested"
    \* ---- the rows of a table (DataTableContent) ----
    filtersForTable,  \* tableFilters[pathKey]: headerKey -> filter
    filteredRows,     \* the flat rows that pass the filters
    deleted           \* the row whose delete button was clicked (its position
                      \* in filteredRows) and the index handed to deleteRow

flatVars == <<data, headers, pathPrefix, allFlatRows, flatPc>>

cleanVars == <<xmlString, firstClean, secondClean, cleanPc>>

codecVars == <<xmlSource, decoded, encoded, reparsed, codecPc>>

stateVars == <<fileName, xmlDoc, viewingNodePath, viewingHistory,
               nodeForColumnSelection, tableColumns, tableFilters,
               invalidCharsRemoved, cleaningLog>>

storeVars == <<stateVars, revoked, thrown, warned, call>>

uploaderVars == <<reading, loading, error>>

lookupVars == <<lookupDoc, lookupPath, lookupVariant, lookupResult, lookupPc>>

filterVars == <<filterQuery, cellValue, conditions, passes, filterPc>>

rowVars == <<filtersForTable, filteredRows, deleted>>

vars == <<flatVars, cleanVars, codecVars, storeVars, uploaderVars, lookupVars,
          filterVars, rowVars>>

-----------------------------------------------------------------------------
(* Strings *)

UpperChars ==
    <<"A","B","C","D","E","F","G","H","I","J","K","L","M",
      "N","O","P","Q","R","S","T","U","V","W","X","Y","Z">>

LowerChars ==
    <<"a","b","c","d","e","f","g","h","i","j","k","l","m",
      "n","o","p","q","r","s","t","u","v","w","x","y","z">>

DigitChars == <<"0","1","2","3","4","5","6","7","8","9">>

toLowerCaseChar(c) ==
    IF \E i \in 1..Len(UpperChars) : UpperChars[i] = c
    THEN LowerChars[CHOOSE i \in 1..Len(UpperChars) : UpperChars[i] = c]
    ELSE c

\* String.prototype.toLowerCase
toLowerCase(s) == [i \in 1..Len(s) |-> toLowerCaseChar(s[i])]

\* String.prototype.startsWith
startsWith(s, p) == Len(p) <= Len(s) /\ SubSeq(s, 1, Len(p)) = p

\* Array.prototype.slice(n) and String.prototype.substring(n)
slice(seq, n) == SubSeq(seq, n + 1, Len(seq))

\* Array.prototype.join(sep) on an array of strings
RECURSIVE join(_, _)
join(parts, sep) ==
    IF Len(parts) = 0 THEN <<>>
    ELSE IF Len(parts) = 1 THEN parts[1]
    ELSE parts[1] \o sep \o join(Tail(parts), sep)

\* String.prototype.split(sep) for a one-character separator: the pieces
\* between the separators, the empty ones included.
RECURSIVE splitFrom(_, _, _)
splitFrom(s, sep, cur) ==
    IF Len(s) = 0 THEN <<cur>>
    ELSE IF Head(s) = sep THEN <<cur>> \o splitFrom(Tail(s), sep, <<>>)
    ELSE splitFrom(Tail(s), sep, Append(cur, Head(s)))

split(s, sep) == splitFrom(s, sep, <<>>)

\* Array.prototype.filter(Boolean) on an array of strings: '' is falsy
filterBoolean(parts) == SelectSeq(parts, LAMBDA p : Len(p) > 0)

\* all sequences over S of length 1..n
RECURSIVE SeqsUpTo(_, _)
SeqsUpTo(S, n) ==
    IF n = 0 THEN {}
    ELSE LET shorter == SeqsUpTo(S, n - 1)
         IN  {<<x>> : x \in S} \cup shorter
             \cup {Append(q, x) : q \in shorter, x \in S}

\* String(n) for an array index
indexString(n) ==
    IF n < 10 THEN <<DigitChars[n + 1]>>
    ELSE <<DigitChars[(n \div 10) + 1], DigitChars[(n % 10) + 1]>>

-----------------------------------------------------------------------------
(* JavaScript values *)

Str(s)     == [t |-> "string",    s |-> s,    kv |-> <<>>, items |-> <<>>]
Obj(kv)    == [t |-> "object",    s |-> <<>>, kv |-> kv,   items |-> <<>>]
Arr(items) == [t |-> "array",     s |-> <<>>, kv |-> <<>>, items |-> items]
Undefined  == [t |-> "undefined", s |-> <<>>, kv |-> <<>>, items |-> <<>>]
Null == [t |-> "null", s |-> <<>>, kv |-> <<>>, items |-> <<>>]

\* one own property of an object
Prop(k, v) == [k |-> k, v |-> v]

\* Array.isArray answering false for every value
isArrayNever(v) == FALSE

isArray(v) == v.t = "array"

\* typeof v === 'object' && v !== null
isObjectLike(v) == v.t \in {"object", "array"}

\* the reserved keys of a decoded element
AttributesKey == <<"@","a","t","t","r","i","b","u","t","e","s">>
TextKey       == <<"#","t","e","x","t">>
ValueHeader   == <<"v","a","l","u","e">>

\* Object.keys(v): own keys in order; the indices, as strings, for an array
objectKeys(v) ==
    IF v.t = "object" THEN [i \in 1..Len(v.kv) |-> v.kv[i].k]
    ELSE IF v.t = "array" THEN [i \in 1..Len(v.items) |-> indexString(i - 1)]
    ELSE <<>>

\* v[key] for an own key returned by objectKeys
ownProperty(v, key) ==
    IF v.t = "object"
    THEN v.kv[CHOOSE i \in 1..Len(v.kv) : v.kv[i].k = key].v
    ELSE v.items[CHOOSE i \in 1..Len(v.items) : indexString(i - 1) = key]

\* F(v), with v evaluated once however often F uses it
Bind(v, F(_)) == CHOOSE y \in {F(r) : r \in {v}} : TRUE

\* Array.prototype.find over Object.keys: the first key satisfying Test
firstIndex(keys, Test(_)) ==
    IF \E i \in 1..Len(keys) : Test(keys[i])
    THEN CHOOSE i \in 1..Len(keys) :
            Test(keys[i]) /\ \A j \in 1..(i - 1) : ~Test(keys[j])
    ELSE 0

-----------------------------------------------------------------------------
(* Paths: a segment is a key (a string) or an array index *)

Key(s) == [seg |-> "key",   key |-> s,    idx |-> 0]
Idx(n) == [seg |-> "index", key |-> <<>>, idx |-> n]

\* a path that may be undefined (the cell of an absent field)
DefinedPath(segs) == [defined |-> TRUE,  segs |-> segs]
UndefinedPath     == [defined |-> FALSE, segs |-> <<>>]

\* the key a segment names: String(segment)
segmentString(seg) == IF seg.seg = "key" THEN seg.key ELSE indexString(seg.idx)

\* object[key] of lodash's baseGet: an own property by its exact key, the
\* character at an index of a string, undefined otherwise
getProperty(v, seg) ==
    LET ks == objectKeys(v)
        name == segmentString(seg)
    IN  IF v.t \in {"object", "array"}
        THEN IF \E i \in 1..Len(ks) : ks[i] = name
             THEN ownProperty(v, name)
             ELSE Undefined
        ELSE IF v.t = "string"
                /\ \E i \in 1..Len(v.s) : indexString(i - 1) = name
        THEN Str(<<v.s[CHOOSE i \in 1..Len(v.s) : indexString(i - 1) = name]>>)
        ELSE Undefined

\* lodash.get(object, path) with an array path: undefined on any miss, and
\* for the empty path
RECURSIVE baseGet(_, _)
baseGet(v, path) ==
    IF Len(path) = 0 THEN v
    ELSE IF v.t = "undefined" THEN Undefined
    ELSE baseGet(getProperty(v, Head(path)), Tail(path))

get(v, path) == IF Len(path) = 0 THEN Undefined ELSE baseGet(v, path)

-----------------------------------------------------------------------------
(* DataTable.jsx: getHeaderKey, caseInsensitiveGet, flattenRow *)

\* a column definition: a plain name, or a composite {parent, child}
PlainHeader(name) ==
    [complex |-> FALSE, name |-> name, parent |-> <<>>, child |-> <<>>]
ComplexHeader(parent, child) ==
    [complex |-> TRUE, name |-> <<>>, parent |-> parent, child |-> child]

getHeaderKey(header) ==
    IF header.complex
    THEN join(header.parent, <<".">>) \o <<".">> \o header.child
    ELSE header.name

\* the equality test of caseInsensitiveGet's key lookup
sameKey(k, segment) == toLowerCase(k) = toLowerCase(segment)

RECURSIVE caseInsensitiveWalk(_, _, _)
caseInsensitiveWalk(current, pathSegments, actualPath) ==
    IF Len(pathSegments) = 0
    THEN [value |-> current, actualPath |-> DefinedPath(actualPath)]
    ELSE IF ~isObjectLike(current)
    THEN [value |-> Undefined, actualPath |-> UndefinedPath]
    ELSE LET ks == objectKeys(current)
             i  == firstIndex(ks, LAMBDA k : sameKey(k, Head(pathSegments)))
         IN  IF i = 0
             THEN [value |-> Undefined, actualPath |-> UndefinedPath]
             ELSE caseInsensitiveWalk(ownProperty(current, ks[i]),
                                      Tail(pathSegments),
                                      Append(actualPath, Key(ks[i])))

\* a variant that records the segment asked for, not the key found
RECURSIVE caseInsensitiveWalkAsked(_, _, _)
caseInsensitiveWalkAsked(current, pathSegments, actualPath) ==
    IF Len(pathSegments) = 0
    THEN [value |-> current, actualPath |-> DefinedPath(actualPath)]
    ELSE IF ~isObjectLike(current)
    THEN [value |-> Undefined, actualPath |-> UndefinedPath]
    ELSE LET ks == objectKeys(current)
             i  == firstIndex(ks, LAMBDA k : sameKey(k, Head(pathSegments)))
         IN  IF i = 0
             THEN [value |-> Undefined, actualPath |-> UndefinedPath]
             ELSE caseInsensitiveWalkAsked(ownProperty(current, ks[i]),
                                           Tail(pathSegments),
                                           Append(actualPath, Key(Head(pathSegments))))

caseInsensitiveGetAsked(obj, pathSegments) ==
    caseInsensitiveWalkAsked(obj, pathSegments, <<>>)

\* pathSegments is an array of strings; the result is {value, actualPath}
caseInsensitiveGet(obj, pathSegments) ==
    caseInsensitiveWalk(obj, pathSegments, <<>>)

\* obj[key] = rec on an object kept as a sequence of [k, ...] records: an
\* existing key keeps its place
setKey(seq, rec) ==
    IF \E i \in 1..Len(seq) : seq[i].k = rec.k
    THEN [i \in 1..Len(seq) |-> IF seq[i].k = rec.k THEN rec ELSE seq[i]]
    ELSE Append(seq, rec)

Cell(k, value, path) == [k |-> k, value |-> value, path |-> path]

\* the cell of a plain column (lines 66-104)
simpleCell(row, rowIndex, header, prefix) ==
    LET name    == header.name
        rowPath == prefix \o <<Idx(rowIndex)>>
        pathSegments ==
            IF startsWith(name, <<"@">>)
            THEN <<AttributesKey>> \o split(slice(name, 1), ".")
            ELSE <<name>>
        found == caseInsensitiveGet(row, pathSegments)
        first ==
            IF name = ValueHeader
            THEN [value |-> row, path |-> DefinedPath(rowPath)]
            ELSE IF isObjectLike(row)
            THEN [value |-> found.value,
                  path  |-> IF found.actualPath.defined
                            THEN DefinedPath(rowPath \o found.actualPath.segs)
                            ELSE UndefinedPath]
            ELSE [value |-> Undefined, path |-> UndefinedPath]
    IN  IF first.value.t = "undefined" /\ name = TextKey /\ ~isObjectLike(row)
        THEN Cell(getHeaderKey(header), row, DefinedPath(rowPath))
        ELSE Cell(getHeaderKey(header), first.value, first.path)

\* a variant that never reuses an established context
findContextFromRow(contexts, parentPathKey, longestPrefix, context) ==
    [longestPrefix |-> longestPrefix, context |-> context]

\* the deepest context a composite column's parent path belongs to
\* (lines 110-118): the longest context key that is a string prefix
RECURSIVE findContext(_, _, _, _)
findContext(contexts, parentPathKey, longestPrefix, context) ==
    IF Len(contexts) = 0
    THEN [longestPrefix |-> longestPrefix, context |-> context]
    ELSE LET c == Head(contexts)
         IN  IF startsWith(parentPathKey, c.k) /\ Len(c.k) > Len(longestPrefix)
             THEN findContext(Tail(contexts), parentPathKey, c.k,
                              [item |-> c.item, path |-> c.path])
             ELSE findContext(Tail(contexts), parentPathKey, longestPrefix, context)

\* the cell read from one item of the branch (lines 145-161)
childCell(item, newContextPath, header) ==
    LET childIsAttribute == startsWith(header.child, <<"@">>)
        childSegment == IF childIsAttribute THEN slice(header.child, 1)
                        ELSE header.child
        attr  == caseInsensitiveGet(item, <<AttributesKey, childSegment>>)
        child == caseInsensitiveGet(item, <<childSegment>>)
        hk    == getHeaderKey(header)
    IN  IF childIsAttribute
        THEN Cell(hk, attr.value,
                  IF attr.actualPath.defined
                  THEN DefinedPath(newContextPath \o attr.actualPath.segs)
                  ELSE UndefinedPath)
        ELSE IF header.child = ValueHeader
        THEN Cell(hk, item, DefinedPath(newContextPath))
        ELSE Cell(hk, child.value,
                  IF child.actualPath.defined
                  THEN DefinedPath(newContextPath \o child.actualPath.segs)
                  ELSE UndefinedPath)

\* the rows one work-in-progress row becomes under a composite column
\* (lines 106-166)
complexRows(wip, row, rowIndex, header, prefix) ==
    LET parentPathKey == join(header.parent, <<".">>)
        found == findContext(wip.contexts, parentPathKey, <<>>,
                             [item |-> row, path |-> prefix \o <<Idx(rowIndex)>>])
        context == found.context
        relativePathSegments ==
            slice(header.parent,
                  Len(filterBoolean(split(found.longestPrefix, "."))))
        branch == caseInsensitiveGet(context.item, relativePathSegments)
        dataBranch == branch.value
        items == IF isArray(dataBranch) THEN dataBranch.items
                 ELSE IF dataBranch.t # "undefined" THEN <<dataBranch>>
                 ELSE <<>>
        newWip(itemIndex) ==
            LET newContextPath ==
                    context.path \o branch.actualPath.segs
                    \o (IF isArray(dataBranch) THEN <<Idx(itemIndex - 1)>> ELSE <<>>)
            IN  [values   |-> setKey(wip.values,
                                     childCell(items[itemIndex], newContextPath, header)),
                 contexts |-> setKey(wip.contexts,
                                     [k |-> parentPathKey, item |-> items[itemIndex],
                                      path |-> newContextPath])]
    IN  IF Len(items) = 0
        THEN <<[values   |-> setKey(wip.values,
                                    Cell(getHeaderKey(header), Undefined, UndefinedPath)),
                contexts |-> wip.contexts]>>
        ELSE [i \in 1..Len(items) |-> newWip(i)]

\* one pass of headers.forEach over the work-in-progress rows
RECURSIVE applyHeader(_, _, _, _, _)
applyHeader(wipRows, row, rowIndex, header, prefix) ==
    IF Len(wipRows) = 0 THEN <<>>
    ELSE (IF header.complex
          THEN complexRows(Head(wipRows), row, rowIndex, header, prefix)
          ELSE <<[values   |-> setKey(Head(wipRows).values,
                                      simpleCell(row, rowIndex, header, prefix)),
                  contexts |-> Head(wipRows).contexts]>>)
         \o applyHeader(Tail(wipRows), row, rowIndex, header, prefix)

RECURSIVE applyHeaders(_, _, _, _, _)
applyHeaders(wipRows, row, rowIndex, hs, prefix) ==
    IF Len(hs) = 0 THEN wipRows
    ELSE applyHeaders(applyHeader(wipRows, row, rowIndex, Head(hs), prefix),
                      row, rowIndex, Tail(hs), prefix)

\* a variant that tags each flat row with its own position
flattenRowSubIndex(row, rowIndex, hs, prefix) ==
    LET wipRows == applyHeaders(<<[values |-> <<>>, contexts |-> <<>>]>>,
                                row, rowIndex, hs, prefix)
    IN  [i \in 1..Len(wipRows) |->
            [values |-> wipRows[i].values, originalIndex |-> i - 1]]

\* flattenRow(row, rowIndex, headers, pathPrefix): the flat rows of one
\* top-level row, each {...values, __originalIndex}
flattenRow(row, rowIndex, hs, prefix) ==
    LET wipRows == applyHeaders(<<[values |-> <<>>, contexts |-> <<>>]>>,
                                row, rowIndex, hs, prefix)
    IN  [i \in 1..Len(wipRows) |->
            [values |-> wipRows[i].values, originalIndex |-> rowIndex]]

\* data.flatMap((row, rowIndex) => flattenRow(row, rowIndex, headers, pathPrefix))
RECURSIVE flatMapRows(_, _, _, _)
flatMapRows(rows, from, hs, prefix) ==
    IF from > Len(rows) THEN <<>>
    ELSE flattenRow(rows[from], from - 1, hs, prefix)
         \o flatMapRows(rows, from + 1, hs, prefix)

flattenAll(d, hs, prefix) == flatMapRows(d.items, 1, hs, prefix)

-----------------------------------------------------------------------------
(* xmlUtils.js: cleanXML.  A code unit outside printable ASCII is written   *)
(* by its name.                                                            *)

NUL  == "U+0000"
CTRL == "U+0001"   \* a C0 control: not XML-legal, not whitespace
VT   == "U+000B"   \* vertical tab: matched by \s, not XML-legal
TAB  == "U+0009"
LF   == "\n"
CR   == "U+000D"
NBSP == "U+00A0"   \* matched by \s, XML-legal
BOM  == "U+FEFF"
REPLACEMENT == "U+FFFD"
HIGH == "U+D83D"   \* a high surrogate code unit
LOW  == "U+DE00"   \* a low surrogate code unit
NONCHAR == "U+FFFF"

\* the class [\s\uFEFF\uFFFD] of line 152, among the code units above
isLeadingRunChar(c) ==
    c \in {" ", TAB, LF, CR, VT, NBSP, BOM, REPLACEMENT}

\* the C0 controls only: surrogates and U+FFFF are let through
isControlUnit(c) == c \in {NUL, CTRL, VT}

\* a single code unit outside \u0009 \u000A \u000D \u0020-\uD7FF \uE000-\uFFFD
\* (a lone surrogate is such a unit)
isInvalidUnit(c) == c \in {NUL, CTRL, VT, HIGH, LOW, NONCHAR}

\* String.prototype.replace(/\u0000/g, '')
removeNul(s) == SelectSeq(s, LAMBDA c : c # NUL)

\* the length of the match of /^[\s\uFEFF\uFFFD]+/, 0 when there is none
RECURSIVE leadingRun(_)
leadingRun(s) ==
    IF Len(s) > 0 /\ isLeadingRunChar(Head(s)) THEN 1 + leadingRun(Tail(s))
    ELSE 0

\* the matches of invalidRawCharRegex (flags gu) from position i on: with
\* the u flag a high surrogate followed by a low one is one code point of
\* \u{10000}-\u{10FFFF} and is not matched.  The result keeps the legal
\* code units and lists the matched ones.
inSurrogatePair(s, i) ==
    \/ s[i] = HIGH /\ i < Len(s) /\ s[i + 1] = LOW
    \/ s[i] = LOW /\ i > 1 /\ s[i - 1] = HIGH

isMatch(s, i) == isInvalidUnit(s[i]) /\ ~inSurrogatePair(s, i)

Indices(s) == [i \in 1..Len(s) |-> i]

pick(s, indices) == [k \in 1..Len(indices) |-> s[indices[k]]]

scanInvalid(s) ==
    [kept    |-> pick(s, SelectSeq(Indices(s), LAMBDA i : ~isMatch(s, i))),
     matched |-> pick(s, SelectSeq(Indices(s), LAMBDA i : isMatch(s, i)))]

\* [...new Set(invalidChars)]: the distinct matches in order of first use
RECURSIVE unique(_)
unique(q) ==
    IF Len(q) = 0 THEN <<>>
    ELSE LET front == unique(SubSeq(q, 1, Len(q) - 1))
             last  == q[Len(q)]
         IN  IF \E i \in 1..Len(front) : front[i] = last THEN front
             ELSE Append(front, last)

\* one line of the cleaning log
LogNul(n)        == [what |-> "nul",     count |-> n, chars |-> <<>>]
LogBom           == [what |-> "bom",     count |-> 0, chars |-> <<>>]
LogInvalid(n, u) == [what |-> "invalid", count |-> n, chars |-> u]

\* cleanXML with /^[\s\uFEFF\uFFFD]*/ on line 152: the match is never null,
\* so the byte-order-mark line is logged for every text
cleanXMLStarRun(raw) ==
    LET nulCount == Len(SelectSeq(raw, LAMBDA c : c = NUL))
        step1    == IF nulCount > 0 THEN removeNul(raw) ELSE raw
        log1     == IF nulCount > 0 THEN <<LogNul(nulCount)>> ELSE <<>>
        step2    == slice(step1, leadingRun(step1))
        log2     == Append(log1, LogBom)
        scan     == scanInvalid(step2)
        bad      == Len(scan.matched)
        step3    == IF bad > 0 THEN scan.kept ELSE step2
        log3     == IF bad > 0
                    THEN Append(log2, LogInvalid(bad, unique(scan.matched)))
                    ELSE log2
    IN  [cleaned |-> step3, removedCount |-> Len(raw) - Len(step3), log |-> log3]

cleanXML(raw) ==
    LET nulCount == Len(SelectSeq(raw, LAMBDA c : c = NUL))
        step1    == IF nulCount > 0 THEN removeNul(raw) ELSE raw
        log1     == IF nulCount > 0 THEN <<LogNul(nulCount)>> ELSE <<>>
        run      == leadingRun(step1)
        step2    == IF run > 0 THEN slice(step1, run) ELSE step1
        log2     == IF run > 0 THEN Append(log1, LogBom) ELSE log1
        scan     == scanInvalid(step2)
        bad      == Len(scan.matched)
        step3    == IF bad > 0 THEN scan.kept ELSE step2
        log3     == IF bad > 0
                    THEN Append(log2, LogInvalid(bad, unique(scan.matched)))
                    ELSE log2
    IN  [cleaned |-> step3, removedCount |-> Len(raw) - Len(step3), log |-> log3]

-----------------------------------------------------------------------------
(* The sanitizer applied to a text, and again to its own output *)

MaxTextLen == 3   \* longest raw text handed to cleanXML

RawChars == {NUL, CTRL, VT, " ", BOM, REPLACEMENT, HIGH, LOW, NONCHAR, "<", "a"}

RawTexts == SeqsUpTo(RawChars, MaxTextLen) \cup {<<>>}

NoClean == [cleaned |-> <<>>, removedCount |-> 0, log |-> <<>>]

CleanIdle ==
    /\ xmlString = <<>>
    /\ firstClean = NoClean
    /\ secondClean = NoClean
    /\ cleanPc = "idle"

NoParse == [ok |-> FALSE, doc |-> Undefined, rootName |-> <<>>]

CodecIdle ==
    /\ xmlSource = <<>>
    /\ decoded = NoParse
    /\ encoded = <<>>
    /\ reparsed = NoParse
    /\ codecPc = "idle"

\* a path that may be null (no node is shown)
NullPath == [defined |-> FALSE, segs |-> <<>>]

NoDoc == [isNull |-> TRUE, doc |-> Undefined, rootName |-> <<>>, originalXml |-> <<>>]

NoSelection ==
    [isNull |-> TRUE, path |-> <<>>, parentPath |-> NullPath, data |-> Null]

NoCall == [op |-> "", path |-> NullPath, index |-> 0, value |-> Undefined]

NoFile == [name |-> "", type |-> "", text |-> <<>>]

\* the store as create() builds it (store.js lines 10-18), nothing uploaded
StoreIdle ==
    /\ fileName = ""
    /\ xmlDoc = NoDoc
    /\ viewingNodePath = NullPath
    /\ viewingHistory = <<>>
    /\ nodeForColumnSelection = NoSelection
    /\ tableColumns = <<>>
    /\ tableFilters = <<>>
    /\ invalidCharsRemoved = 0
    /\ cleaningLog = [defined |-> TRUE, entries |-> <<>>]
    /\ revoked = FALSE
    /\ thrown = ""
    /\ warned = FALSE
    /\ call = NoCall
    /\ reading = NoFile
    /\ loading = FALSE
    /\ error = <<>>

NoDelete == [position |-> 0, index |-> -1]

RowsIdle ==
    /\ filtersForTable = <<>>
    /\ filteredRows = <<>>
    /\ deleted = NoDelete

FilterIdle ==
    /\ filterQuery = <<>>
    /\ cellValue = Undefined
    /\ conditions = <<>>
    /\ passes = FALSE
    /\ filterPc = "idle"

LookupIdle ==
    /\ lookupDoc = Undefined
    /\ lookupPath = <<>>
    /\ lookupVariant = <<>>
    /\ lookupResult = [atPath |-> Undefined, atVariant |-> Undefined]
    /\ lookupPc = "idle"

FlatIdle ==
    /\ data = Arr(<<>>)
    /\ headers = <<>>
    /\ pathPrefix = <<>>
    /\ allFlatRows = <<>>
    /\ flatPc = "idle"

CleanInit ==
    /\ FlatIdle
    /\ CodecIdle
    /\ StoreIdle
    /\ LookupIdle
    /\ FilterIdle
    /\ RowsIdle
    /\ xmlString \in RawTexts
    /\ firstClean = NoClean
    /\ secondClean = NoClean
    /\ cleanPc = "input"

\* FileUploader.handleFile, line 19
Clean ==
    /\ cleanPc = "input"
    /\ firstClean' = cleanXML(xmlString)
    /\ cleanPc' = "cleaned"
    /\ UNCHANGED <<xmlString, secondClean, flatVars, codecVars,
                   storeVars, uploaderVars, lookupVars, filterVars, rowVars>>

\* the cleaned text handed to cleanXML once more
CleanAgain ==
    /\ cleanPc = "cleaned"
    /\ secondClean' = cleanXML(firstClean.cleaned)
    /\ cleanPc' = "recleaned"
    /\ UNCHANGED <<xmlString, firstClean, flatVars, codecVars,
                   storeVars, uploaderVars, lookupVars, filterVars, rowVars>>

CleanNext == Clean \/ CleanAgain

SpecClean == CleanInit /\ [][CleanNext]_vars

\* C4: running cleanXML on the output of cleanXML removes nothing.
C4_SanitizerIdempotent ==
    cleanPc = "recleaned" => secondClean.removedCount = 0

-----------------------------------------------------------------------------
(* Bounds and inputs of the flattening engine *)

MaxItems   == 2   \* longest nested sequence in a row
MaxRows    == 2   \* most top-level rows of a collection
MaxHeaders == 2   \* most column definitions of a table

\* the items of a nested branch: an element with a child, one that also
\* has an attribute, as the decoder produces them
BranchItems ==
    { Obj(<<Prop(<<"C">>, Str(<<"1">>))>>),
      Obj(<<Prop(AttributesKey, Obj(<<Prop(<<"N">>, Str(<<"x">>))>>)),
            Prop(<<"C">>, Str(<<"2">>))>>) }

\* what the key B of a row's A holds: a sequence, or a single item
Branches == {Arr(q) : q \in SeqsUpTo(BranchItems, MaxItems)} \cup BranchItems

TableRows ==
    { Obj(<<Prop(<<"A">>, Obj(<<Prop(<<"B">>, b)>>))>>) : b \in Branches }
    \cup { Obj(<<Prop(<<"A">>, Obj(<<Prop(<<"D">>, Str(<<"1">>))>>))>>),
           Obj(<<Prop(AttributesKey, Obj(<<Prop(<<"N">>, Str(<<"x">>))>>)),
                 Prop(<<"A">>, Str(<<"1">>)),
                 Prop(TextKey, Str(<<"t">>))>>),
           Str(<<"p">>) }

FillerRows ==
    { Str(<<"q">>),
      Obj(<<Prop(<<"A">>, Obj(<<Prop(<<"B">>,
            Arr(<<Str(<<"u">>), Str(<<"v">>)>>))>>))>>) }

\* collections of 1..MaxRows rows: one row of TableRows among filler rows
Collections ==
    { Arr([i \in 1..Len(f) + 1 |->
             IF i < pos THEN f[i] ELSE IF i = pos THEN r ELSE f[i - 1]]) :
        <<f, pos, r>> \in
          { <<f, pos, r>> \in
              (SeqsUpTo(FillerRows, MaxRows - 1) \cup {<<>>})
              \X (1..MaxRows) \X TableRows : pos <= Len(f) + 1 } }

ParentAB == <<<<"A">>, <<"B">>>>

HeaderChoices ==
    { PlainHeader(<<"a">>), PlainHeader(<<"@","n">>),
      PlainHeader(TextKey), PlainHeader(ValueHeader),
      ComplexHeader(ParentAB, <<"c">>),
      ComplexHeader(ParentAB, <<"@","N">>),
      ComplexHeader(ParentAB, ValueHeader),
      ComplexHeader(<<<<"a">>>>, <<"B">>) }

HeaderLists == SeqsUpTo(HeaderChoices, MaxHeaders)

\* the table is the collection at ROOT.LIST of the document
TablePath == <<Key(<<"R","O","O","T">>), Key(<<"L","I","S","T">>)>>

\* the document that holds collection d at TablePath
DocumentOf(d) ==
    Obj(<<Prop(<<"R","O","O","T">>, Obj(<<Prop(<<"L","I","S","T">>, d)>>))>>)

-----------------------------------------------------------------------------
(* The flattening of one table *)

FlatInit ==
    /\ CleanIdle
    /\ CodecIdle
    /\ StoreIdle
    /\ LookupIdle
    /\ FilterIdle
    /\ RowsIdle
    /\ data \in Collections
    /\ headers \in HeaderLists
    /\ pathPrefix = TablePath
    /\ allFlatRows = <<>>
    /\ flatPc = "input"

\* DataTableContent, line 299
Flatten ==
    /\ flatPc = "input"
    /\ allFlatRows' = flattenAll(data, headers, pathPrefix)
    /\ flatPc' = "done"
    /\ UNCHANGED <<data, headers, pathPrefix, cleanVars, codecVars,
                   storeVars, uploaderVars, lookupVars, filterVars, rowVars>>

FlatNext == Flatten

SpecFlatten == FlatInit /\ [][FlatNext]_vars

-----------------------------------------------------------------------------
(* Properties of the flattening engine *)

\* the flat rows that came from top-level row r (0-based)
RowsOf(r) == SelectSeq(allFlatRows, LAMBDA fr : fr.originalIndex = r)

\* row[headerKey] of a flat row
cellOf(fr, hk) ==
    fr.values[CHOOSE i \in 1..Len(fr.values) : fr.values[i].k = hk]

compositeHeaders == SelectSeq(headers, LAMBDA h : h.complex)

\* the field a composite column's child names in one item of the branch:
\* an attribute for '@name', the item itself for 'value', a child key
childField(item, child) ==
    IF startsWith(child, <<"@">>)
    THEN caseInsensitiveGet(item, <<AttributesKey, slice(child, 1)>>).value
    ELSE IF child = ValueHeader THEN item
    ELSE caseInsensitiveGet(item, <<child>>).value

\* what a composite column's parent path resolves to in top-level row r
branchOf(r, h) == caseInsensitiveGet(data.items[r], h.parent).value

\* C3: every cell of every flattened row whose path is defined holds a path
\* that, resolved in the document with exact keys and indices from the
\* document root, yields exactly that cell's value.
C3_CellProvenance ==
    flatPc = "done" =>
        \A i \in 1..Len(allFlatRows) :
            \A j \in 1..Len(allFlatRows[i].values) :
                LET cell == allFlatRows[i].values[j]
                IN  cell.path.defined =>
                        get(DocumentOf(data), cell.path.segs) = cell.value

\* a row fanned out of a nested sequence holds a cell found through a key
\* of another case, with an item index in its path
C3_Witness ==
    /\ flatPc = "done"
    /\ \E i \in 1..Len(allFlatRows) :
        \E j \in 1..Len(allFlatRows[i].values) :
            LET cell == allFlatRows[i].values[j]
            IN  /\ cell.path.defined
                /\ cell.value = Str(<<"2">>)
                /\ Len(cell.path.segs) = 7
                /\ cell.path.segs[6] = Idx(1)
                /\ cell.k = <<"A",".","B",".","c">>

\* C5: with exactly one composite column, a top-level row in which the
\* column's parent path resolves to a sequence of N >= 1 items yields
\* exactly N flat rows, the i-th holding the child field of the i-th item,
\* all carrying the index of the top-level row.
C5_CartesianCorrectness ==
    (flatPc = "done" /\ Len(compositeHeaders) = 1) =>
        LET h == compositeHeaders[1]
        IN  \A r \in 1..Len(data.items) :
                LET branch == branchOf(r, h)
                    rs     == flattenRow(data.items[r], r - 1, headers, pathPrefix)
                IN  (isArray(branch) /\ Len(branch.items) >= 1) =>
                        /\ RowsOf(r - 1) = rs
                        /\ Len(rs) = Len(branch.items)
                        /\ \A i \in 1..Len(rs) :
                            /\ cellOf(rs[i], getHeaderKey(h)).value
                                 = childField(branch.items[i], h.child)
                            /\ rs[i].originalIndex = r - 1

\* the spec's example: {A: {B: [{C:1}, {C:2}]}} with parent [A, B], child C
C5_Witness ==
    /\ flatPc = "done"
    /\ Len(compositeHeaders) = 1
    /\ compositeHeaders[1] = ComplexHeader(ParentAB, <<"c">>)
    /\ \E r \in 1..Len(data.items) :
        /\ isArray(branchOf(r, compositeHeaders[1]))
        /\ Len(RowsOf(r - 1)) = 2
        /\ cellOf(RowsOf(r - 1)[1], <<"A",".","B",".","c">>).value = Str(<<"1">>)
        /\ cellOf(RowsOf(r - 1)[2], <<"A",".","B",".","c">>).value = Str(<<"2">>)

\* C6: when all K >= 2 composite columns have the same parent path and it
\* resolves to an N-item sequence in a row, that row yields N flat rows (not
\* N^K) and in the i-th row all K cells are read from the i-th item.
C6_SharedFanOut ==
    (/\ flatPc = "done"
     /\ Len(compositeHeaders) >= 2
     /\ \A k \in 1..Len(compositeHeaders) :
            compositeHeaders[k].parent = compositeHeaders[1].parent) =>
        \A r \in 1..Len(data.items) :
            LET branch == branchOf(r, compositeHeaders[1])
                rs     == RowsOf(r - 1)
            IN  (isArray(branch) /\ Len(branch.items) >= 1) =>
                    /\ Len(rs) = Len(branch.items)
                    /\ \A i \in 1..Len(rs) : \A k \in 1..Len(compositeHeaders) :
                        cellOf(rs[i], getHeaderKey(compositeHeaders[k])).value
                          = childField(branch.items[i], compositeHeaders[k].child)

\* two columns with different children over one two-item sequence: two rows
C6_Witness ==
    /\ flatPc = "done"
    /\ Len(compositeHeaders) >= 2
    /\ compositeHeaders[1].parent = compositeHeaders[2].parent
    /\ compositeHeaders[1].child # compositeHeaders[2].child
    /\ \E r \in 1..Len(data.items) :
        /\ isArray(branchOf(r, compositeHeaders[1]))
        /\ Len(branchOf(r, compositeHeaders[1]).items) = 2
        /\ Len(RowsOf(r - 1)) = 2

-----------------------------------------------------------------------------
(* xmlUtils.js: xmlToJson over the DOM the browser's parser builds *)

\* DOM nodes: an element (nodeType 1) or a text node (nodeType 3)
Element(name, attributes, childNodes) ==
    [nodeType |-> 1, nodeName |-> name, attributes |-> attributes,
     childNodes |-> childNodes, nodeValue |-> <<>>]
TextNode(value) ==
    [nodeType |-> 3, nodeName |-> TextKey, attributes |-> <<>>,
     childNodes |-> <<>>, nodeValue |-> value]
Attr(name, value) == [nodeName |-> name, nodeValue |-> value]

\* the code units String.prototype.trim strips, among those of this model
isWhiteSpace(c) == c \in {" ", TAB, LF, CR, VT, NBSP, BOM}

RECURSIVE trimStart(_)
trimStart(s) ==
    IF Len(s) > 0 /\ isWhiteSpace(Head(s)) THEN trimStart(Tail(s)) ELSE s

RECURSIVE trimEnd(_)
trimEnd(s) ==
    IF Len(s) > 0 /\ isWhiteSpace(s[Len(s)])
    THEN trimEnd(SubSeq(s, 1, Len(s) - 1)) ELSE s

\* String.prototype.trim
trim(s) == trimEnd(trimStart(s))

\* the keys of childrenByName, in the order the tags first occur (213-227)
RECURSIVE childNames(_, _)
childNames(childNodes, seen) ==
    IF Len(childNodes) = 0 THEN seen
    ELSE LET child == Head(childNodes)
         IN  IF child.nodeType = 1
                /\ ~\E i \in 1..Len(seen) : seen[i] = child.nodeName
             THEN childNames(Tail(childNodes), Append(seen, child.nodeName))
             ELSE childNames(Tail(childNodes), seen)

\* textValue: the trimmed values of the non-blank text nodes, concatenated
RECURSIVE textOf(_)
textOf(childNodes) ==
    IF Len(childNodes) = 0 THEN <<>>
    ELSE LET child == Head(childNodes)
         IN  (IF child.nodeType = 3 /\ Len(trim(child.nodeValue)) > 0
              THEN trim(child.nodeValue) ELSE <<>>)
             \o textOf(Tail(childNodes))

\* obj['@attributes'], one key per attribute in document order
RECURSIVE attributesObject(_, _)
attributesObject(attributes, acc) ==
    IF Len(attributes) = 0 THEN acc
    ELSE attributesObject(Tail(attributes),
            setKey(acc, Prop(Head(attributes).nodeName,
                             Str(Head(attributes).nodeValue))))

RECURSIVE xmlToJson(_)
xmlToJson(node) ==
    IF node.nodeType = 3
    THEN IF Len(trim(node.nodeValue)) > 0 THEN Str(trim(node.nodeValue)) ELSE Null
    ELSE IF node.nodeType # 1 THEN Null
    ELSE
    LET withAttributes ==
            IF Len(node.attributes) > 0
            THEN <<Prop(AttributesKey, Obj(attributesObject(node.attributes, <<>>)))>>
            ELSE <<>>
        names == childNames(node.childNodes, <<>>)
        textValue == textOf(node.childNodes)
        parsedChildren(name) ==
            LET children == SelectSeq(node.childNodes,
                    LAMBDA c : c.nodeType = 1 /\ c.nodeName = name)
                parsed == [i \in 1..Len(children) |-> xmlToJson(children[i])]
            IN  SelectSeq(parsed, LAMBDA c : c # Null)
        addChildren[i \in 0..Len(names)] ==
            IF i = 0 THEN withAttributes
            ELSE Bind(parsedChildren(names[i]), LAMBDA pc :
                     IF Len(pc) > 0
                     THEN setKey(addChildren[i - 1],
                                 Prop(names[i], IF Len(pc) = 1 THEN pc[1] ELSE Arr(pc)))
                     ELSE addChildren[i - 1])
        obj == addChildren[Len(names)]
        hasAttributes == Len(node.attributes) > 0
        hasChildElements == Len(names) > 0
    IN  IF hasChildElements \/ hasAttributes
        THEN IF Len(textValue) > 0
             THEN Obj(setKey(obj, Prop(TextKey, Str(textValue))))
             ELSE Obj(obj)
        ELSE Str(textValue)

-----------------------------------------------------------------------------
(* xmlUtils.js: jsonToXml *)

XmlDeclaration ==
    <<"<","?","x","m","l"," ","v","e","r","s","i","o","n","=","\"","1",".","0","\"",
      " ","e","n","c","o","d","i","n","g","=","\"","U","T","F","-","8","\"","?",">",LF>>

\* String.prototype.replace(/c/g, to) for one character c
RECURSIVE replaceAll(_, _, _)
replaceAll(s, c, to) ==
    IF Len(s) = 0 THEN <<>>
    ELSE (IF Head(s) = c THEN to ELSE <<Head(s)>>) \o replaceAll(Tail(s), c, to)

\* the five replacements with "&" replaced last instead of first
escapeXmlAmpLast(str) ==
    replaceAll(
      replaceAll(
        replaceAll(
          replaceAll(
            replaceAll(str, "<", <<"&","l","t",";">>),
            ">", <<"&","g","t",";">>),
          "\"", <<"&","q","u","o","t",";">>),
        "'", <<"&","a","p","o","s",";">>),
      "&", <<"&","a","m","p",";">>)

escapeXml(str) ==
    replaceAll(
      replaceAll(
        replaceAll(
          replaceAll(
            replaceAll(str, "&", <<"&","a","m","p",";">>),
            "<", <<"&","l","t",";">>),
          ">", <<"&","g","t",";">>),
        "\"", <<"&","q","u","o","t",";">>),
      "'", <<"&","a","p","o","s",";">>)

\* String(v) for the values escapeXml is handed
stringOf(v) ==
    IF v.t = "string" THEN v.s
    ELSE IF v.t = "object"
    THEN <<"[","o","b","j","e","c","t"," ","O","b","j","e","c","t","]">>
    ELSE IF v.t = "undefined"
    THEN <<"u","n","d","e","f","i","n","e","d">>
    ELSE IF v.t = "null" THEN <<"n","u","l","l">>
    ELSE <<>>

\* the attribute list of one element (lines 293-296)
RECURSIVE attributesXml(_)
attributesXml(kv) ==
    IF Len(kv) = 0 THEN <<>>
    ELSE <<" ">> \o Head(kv).k \o <<"=","\"">> \o escapeXml(stringOf(Head(kv).v))
         \o <<"\"">> \o attributesXml(Tail(kv))

RECURSIVE toXml(_, _)
toXml(v, tagName) ==
    IF v.t \in {"null", "undefined"} THEN <<>>
    ELSE IF isArray(v)
    THEN LET each[i \in 0..Len(v.items)] ==
                 IF i = 0 THEN <<>> ELSE each[i - 1] \o toXml(v.items[i], tagName)
         IN  each[Len(v.items)]
    ELSE
    LET parts[i \in 0..Len(v.kv)] ==
            IF i = 0 THEN [attributes |-> <<>>, children |-> <<>>, textContent |-> <<>>]
            ELSE LET p == parts[i - 1]
                     e == v.kv[i]
                 IN  IF e.k = AttributesKey
                     THEN [p EXCEPT !.attributes = @ \o attributesXml(e.v.kv)]
                     ELSE IF e.k = TextKey
                     THEN [p EXCEPT !.textContent = escapeXml(stringOf(e.v))]
                     ELSE [p EXCEPT !.children = @ \o toXml(e.v, e.k)]
    IN  Bind(IF v.t = "object" THEN parts[Len(v.kv)]
             ELSE [attributes |-> <<>>, children |-> <<>>,
                   textContent |-> escapeXml(stringOf(v))], LAMBDA x :
            IF Len(x.children) = 0 /\ Len(x.textContent) = 0
            THEN <<"<">> \o tagName \o x.attributes \o <<"/",">",LF>>
            ELSE <<"<">> \o tagName \o x.attributes \o <<">">> \o x.textContent
                 \o x.children \o <<"<","/">> \o tagName \o <<">",LF>>)

\* jsonToXml(obj, rootName): obj is the document wrapped under its root name
jsonToXml(obj, rootName) ==
    XmlDeclaration \o toXml(getProperty(obj, Key(rootName)), rootName)


-----------------------------------------------------------------------------
(* xmlUtils.js: parseXML.  DOMParser is the browser's XML 1.0 processor:
   line ends are normalised, references are expanded, attribute values are
   normalised, and a document that is not well formed yields a parsererror *)

CommentNode(value) ==
    [nodeType |-> 8, nodeName |-> <<"#","c","o","m","m","e","n","t">>,
     attributes |-> <<>>, childNodes |-> <<>>, nodeValue |-> value]

Range(seq) == {seq[i] : i \in 1..Len(seq)}

isNameStartChar(c) == c \in Range(UpperChars) \cup Range(LowerChars) \cup {"_", ":"}
isNameChar(c) == isNameStartChar(c) \/ c \in Range(DigitChars) \cup {".", "-"}
isS(c) == c \in {" ", TAB, LF, CR}

\* the character at position i, "" past the end of the text
charAt(t, i) == IF i >= 1 /\ i <= Len(t) THEN t[i] ELSE ""

\* XML 1.0 section 2.11: CR LF and a lone CR are read as LF
normalizeLineEnds(t) ==
    LET kept == SelectSeq(Indices(t),
                    LAMBDA i : ~(t[i] = LF /\ i > 1 /\ t[i - 1] = CR))
    IN  [k \in 1..Len(kept) |-> IF t[kept[k]] = CR THEN LF ELSE t[kept[k]]]

\* the first position at or after i whose character satisfies Test, the
\* position past the end of the text if there is none
firstFrom(t, i, Test(_)) ==
    LET hits == {j \in i..Len(t) : Test(t[j])}
    IN  IF hits = {} THEN Len(t) + 1
        ELSE CHOOSE j \in hits : \A k \in hits : j <= k

skipS(t, i) == firstFrom(t, i, LAMBDA c : ~isS(c))

nameEnd(t, i) == firstFrom(t, i, LAMBDA c : ~isNameChar(c))

\* the first position at or after i where the text continues with p, 0 if none
indexOf(t, p, i) ==
    LET hits == {j \in i..(Len(t) - Len(p) + 1) : SubSeq(t, j, j + Len(p) - 1) = p}
    IN  IF hits = {} THEN 0
        ELSE CHOOSE j \in hits : \A k \in hits : j <= k

ParseFailure == [ok |-> FALSE, pos |-> 0]

\* the predefined entities and the decimal references to TAB, LF and CR
referenceValue(name) ==
    IF name = <<"a","m","p">> THEN "&"
    ELSE IF name = <<"l","t">> THEN "<"
    ELSE IF name = <<"g","t">> THEN ">"
    ELSE IF name = <<"q","u","o","t">> THEN "\""
    ELSE IF name = <<"a","p","o","s">> THEN "'"
    ELSE IF name = <<"#","9">> THEN TAB
    ELSE IF name = <<"#","1","0">> THEN LF
    ELSE IF name = <<"#","1","3">> THEN CR
    ELSE ""

\* a reference starting at the "&" at position i
parseReference(t, i) ==
    LET semi == indexOf(t, <<";">>, i + 1)
        c == referenceValue(SubSeq(t, i + 1, semi - 1))
    IN  IF semi = 0 \/ c = "" THEN ParseFailure
        ELSE [ok |-> TRUE, pos |-> semi + 1, char |-> c]

\* an attribute value up to its closing quote; a literal TAB, LF or CR is
\* normalised to a space, a character reference is taken as it is (3.3.3)
RECURSIVE parseAttValue(_, _, _, _)
parseAttValue(t, i, quote, value) ==
    Bind(firstFrom(t, i, LAMBDA c : c \in {quote, "&", "<"}), LAMBDA j :
    Bind(value \o [k \in 1..(j - i) |->
                     IF isS(t[i + k - 1]) THEN " " ELSE t[i + k - 1]], LAMBDA upTo :
        IF charAt(t, j) \in {"", "<"} THEN ParseFailure
        ELSE IF charAt(t, j) = quote
        THEN [ok |-> TRUE, pos |-> j + 1, value |-> upTo]
        ELSE Bind(parseReference(t, j), LAMBDA r :
                 IF ~r.ok THEN ParseFailure
                 ELSE Bind(Append(upTo, r.char), LAMBDA longer :
                          parseAttValue(t, r.pos, quote, longer)))))

\* a CDATA section of the DOM: nodeType 4 (CDATA_SECTION_NODE)
CDataSection(value) ==
    [nodeType |-> 4,
     nodeName |-> <<"#","c","d","a","t","a","-","s","e","c","t","i","o","n">>,
     attributes |-> <<>>, childNodes |-> <<>>, nodeValue |-> value]

CDataOpen == <<"<","!","[","C","D","A","T","A","[">>

\* the attributes of a start tag, up to its "/" or ">"
RECURSIVE parseAttributes(_, _, _)
parseAttributes(t, i, attributes) ==
    Bind(skipS(t, i), LAMBDA j :
        IF ~isNameStartChar(charAt(t, j))
        THEN [ok |-> TRUE, pos |-> j, attributes |-> attributes]
        ELSE IF j = i THEN ParseFailure
        ELSE
        Bind(nameEnd(t, j), LAMBDA e :
        Bind(skipS(t, e), LAMBDA eq :
        Bind(skipS(t, eq + 1), LAMBDA q :
            IF charAt(t, eq) # "=" \/ charAt(t, q) \notin {"\"", "'"}
               \/ \E a \in 1..Len(attributes) :
                      attributes[a].nodeName = SubSeq(t, j, e - 1)
            THEN ParseFailure
            ELSE Bind(parseAttValue(t, q + 1, t[q], <<>>), LAMBDA v :
                     IF ~v.ok THEN ParseFailure
                     ELSE Bind(Append(attributes, Attr(SubSeq(t, j, e - 1), v.value)),
                               LAMBDA more : parseAttributes(t, v.pos, more)))))))

\* character data gathered so far becomes one text node
flushText(nodes, text) ==
    IF Len(text) > 0 THEN Append(nodes, TextNode(text)) ELSE nodes

RECURSIVE parseElement(_, _)
RECURSIVE parseContent(_, _, _, _)

\* the content of an element, up to the "</" of its end tag
parseContent(t, i, nodes, text) ==
    Bind(firstFrom(t, i, LAMBDA c : c \in {"<", "&"}), LAMBDA j :
    Bind(text \o SubSeq(t, i, j - 1), LAMBDA upTo :
        IF charAt(t, j) = "" THEN ParseFailure
        ELSE IF charAt(t, j) = "&"
        THEN Bind(parseReference(t, j), LAMBDA r :
                 IF ~r.ok THEN ParseFailure
                 ELSE Bind(Append(upTo, r.char), LAMBDA longer :
                          parseContent(t, r.pos, nodes, longer)))
        ELSE IF charAt(t, j + 1) = "/"
        THEN [ok |-> TRUE, pos |-> j, nodes |-> flushText(nodes, upTo)]
        ELSE IF SubSeq(t, j, j + 3) = <<"<","!","-","-">>
        THEN Bind(indexOf(t, <<"-","-">>, j + 4), LAMBDA close :
                 IF close = 0 \/ charAt(t, close + 2) # ">" THEN ParseFailure
                 ELSE Bind(Append(flushText(nodes, upTo),
                                  CommentNode(SubSeq(t, j + 4, close - 1))),
                           LAMBDA more : parseContent(t, close + 3, more, <<>>)))
        ELSE IF indexOf(t, CDataOpen, j) = j
        THEN Bind(indexOf(t, <<"]","]",">">>, j + 9), LAMBDA close :
                 IF close = 0 THEN ParseFailure
                 ELSE Bind(Append(flushText(nodes, upTo),
                                  CDataSection(SubSeq(t, j + 9, close - 1))),
                           LAMBDA more : parseContent(t, close + 3, more, <<>>)))
        ELSE Bind(parseElement(t, j), LAMBDA el :
                 IF ~el.ok THEN ParseFailure
                 ELSE Bind(Append(flushText(nodes, upTo), el.node),
                           LAMBDA more : parseContent(t, el.pos, more, <<>>)))))

\* an element starting at the "<" at position i
parseElement(t, i) ==
    IF charAt(t, i) # "<" \/ ~isNameStartChar(charAt(t, i + 1)) THEN ParseFailure
    ELSE
    Bind(nameEnd(t, i + 1), LAMBDA e :
    Bind(parseAttributes(t, e, <<>>), LAMBDA as :
        IF ~as.ok THEN ParseFailure
        ELSE IF charAt(t, as.pos) = "/" /\ charAt(t, as.pos + 1) = ">"
        THEN [ok |-> TRUE, pos |-> as.pos + 2,
              node |-> Element(SubSeq(t, i + 1, e - 1), as.attributes, <<>>)]
        ELSE IF charAt(t, as.pos) # ">" THEN ParseFailure
        ELSE
        Bind(parseContent(t, as.pos + 1, <<>>, <<>>), LAMBDA content :
            IF ~content.ok THEN ParseFailure
            ELSE
            Bind(skipS(t, content.pos + 2 + (e - i - 1)), LAMBDA close :
                IF SubSeq(t, content.pos + 2, content.pos + e - i) = SubSeq(t, i + 1, e - 1)
                   /\ charAt(t, close) = ">"
                THEN [ok |-> TRUE, pos |-> close + 1,
                      node |-> Element(SubSeq(t, i + 1, e - 1), as.attributes,
                                       content.nodes)]
                ELSE ParseFailure))))

\* DOMParser.parseFromString(text, 'application/xml'): the document
\* element, or a failure where the browser returns a parsererror document
parseFromString(text) ==
    Bind(text, LAMBDA raw :
        IF Len(scanInvalid(raw).matched) > 0 THEN ParseFailure
        ELSE
        Bind(normalizeLineEnds(raw), LAMBDA t :
        Bind(IF startsWith(t, <<"<","?","x","m","l">>)
             THEN IF indexOf(t, <<"?",">">>, 1) = 0 THEN 0
                  ELSE indexOf(t, <<"?",">">>, 1) + 2
             ELSE 1, LAMBDA start :
            IF start = 0 THEN ParseFailure
            ELSE Bind(parseElement(t, skipS(t, start)), LAMBDA el :
                     IF ~el.ok THEN ParseFailure
                     ELSE IF skipS(t, el.pos) # Len(t) + 1 THEN ParseFailure
                     ELSE el))))

\* parseXML: ok is FALSE where the code throws 'XML Parsing Error'
parseXML(text) ==
    Bind(parseFromString(text), LAMBDA parsed :
        IF ~parsed.ok THEN NoParse
        ELSE [ok |-> TRUE, doc |-> xmlToJson(parsed.node),
              rootName |-> parsed.node.nodeName])


-----------------------------------------------------------------------------
(* Bounds and inputs of the codec: source texts written from small DOM trees,
   every special character as a reference, so that parsing a source text
   builds the tree it was written from *)

MaxValueLen == 1   \* longest enumerated attribute value or text
MaxChildren == 2   \* most child elements of the root element

ValueChars == {"a", "&", "<", ">", "\"", "'", " ", LF, CR}

Values ==
    SeqsUpTo(ValueChars, MaxValueLen)
    \cup {<<"a"," ","b">>, <<"a",LF,"b">>, <<"a",CR,"b">>, <<" ","a">>,
          <<"&","l","t",";">>, <<"a","&","<">>}

referenceTo(c) ==
    IF c = "&" THEN <<"&","a","m","p",";">>
    ELSE IF c = "<" THEN <<"&","l","t",";">>
    ELSE IF c = ">" THEN <<"&","g","t",";">>
    ELSE IF c = "\"" THEN <<"&","q","u","o","t",";">>
    ELSE IF c = "'" THEN <<"&","a","p","o","s",";">>
    ELSE IF c = TAB THEN <<"&","#","9",";">>
    ELSE IF c = LF THEN <<"&","#","1","0",";">>
    ELSE IF c = CR THEN <<"&","#","1","3",";">>
    ELSE <<c>>

RECURSIVE writeValue(_)
writeValue(s) ==
    IF Len(s) = 0 THEN <<>> ELSE referenceTo(Head(s)) \o writeValue(Tail(s))

RECURSIVE writeAttributes(_)
writeAttributes(as) ==
    IF Len(as) = 0 THEN <<>>
    ELSE <<" ">> \o Head(as).nodeName \o <<"=","\"">> \o writeValue(Head(as).nodeValue)
         \o <<"\"">> \o writeAttributes(Tail(as))

\* the source text of a DOM tree
RECURSIVE writeNode(_)
writeNode(node) ==
    IF node.nodeType = 3 THEN writeValue(node.nodeValue)
    ELSE LET inner[i \in 0..Len(node.childNodes)] ==
                 IF i = 0 THEN <<>>
                 ELSE inner[i - 1] \o writeNode(node.childNodes[i])
         IN  <<"<">> \o node.nodeName \o writeAttributes(node.attributes)
             \o (IF Len(node.childNodes) = 0 THEN <<"/",">">>
                 ELSE <<">">> \o inner[Len(node.childNodes)]
                      \o <<"<","/">> \o node.nodeName \o <<">">>)

ChildChoices ==
    { Element(<<"A">>, <<>>, <<TextNode(<<"a">>)>>),
      Element(<<"A">>, <<>>, <<>>),
      Element(<<"B">>, <<>>, <<TextNode(<<"b">>)>>),
      Element(<<"A">>, <<Attr(<<"N">>, <<"n">>)>>, <<>>),
      Element(<<"A">>, <<Attr(<<"N">>, <<"m">>)>>, <<TextNode(<<"t">>)>>),
      Element(<<"A">>, <<>>, <<Element(<<"B">>, <<>>, <<TextNode(<<"c">>)>>)>>) }

ChildLists == SeqsUpTo(ChildChoices, MaxChildren) \cup {<<>>}

SourceTrees ==
    { Element(<<"R">>, <<>>, children) : children \in ChildLists }
    \cup { Element(<<"R">>, <<>>, <<TextNode(v)>> \o children) :
             v \in Values, children \in ChildLists }
    \cup { Element(<<"R">>, <<Attr(<<"N">>, v)>>, children) :
             v \in Values, children \in ChildLists }

\* texts that are not well formed: an element left open, a stray "&"
BrokenTexts == { <<"<","R",">">>, <<"<","R",">","&","<","/","R",">">> }

\* texts with a CDATA section: <R><![CDATA[a]]></R>,
\* <R N="n"><![CDATA[a]]></R>, <R><A><![CDATA[a]]></A>b</R>
CDataTexts ==
    { <<"<","R",">">> \o CDataOpen \o <<"a","]","]",">","<","/","R",">">>,
      <<"<","R"," ","N","=","\"","n","\"",">">> \o CDataOpen
          \o <<"a","]","]",">","<","/","R",">">>,
      <<"<","R",">","<","A",">">> \o CDataOpen
          \o <<"a","]","]",">","<","/","A",">","b","<","/","R",">">> }

SourceTexts ==
    { writeNode(tree) : tree \in SourceTrees } \cup BrokenTexts \cup CDataTexts

CodecInit ==
    /\ FlatIdle
    /\ CleanIdle
    /\ StoreIdle
    /\ LookupIdle
    /\ FilterIdle
    /\ RowsIdle
    /\ xmlSource \in SourceTexts
    /\ decoded = NoParse
    /\ encoded = <<>>
    /\ reparsed = NoParse
    /\ codecPc = "input"

\* FileUploader.handleFile, line 20
Decode ==
    /\ codecPc = "input"
    /\ decoded' = parseXML(xmlSource)
    /\ codecPc' = IF decoded'.ok THEN "decoded" ELSE "failed"
    /\ UNCHANGED <<xmlSource, encoded, reparsed, flatVars, cleanVars,
                   storeVars, uploaderVars, lookupVars, filterVars, rowVars>>

\* Editor save: jsonToXml(xmlDoc.doc, xmlDoc.rootName), the document wrapped
\* under its root name as handleFile stores it
Encode ==
    /\ codecPc = "decoded"
    /\ encoded' = jsonToXml(Obj(<<Prop(decoded.rootName, decoded.doc)>>),
                            decoded.rootName)
    /\ codecPc' = "encoded"
    /\ UNCHANGED <<xmlSource, decoded, reparsed, flatVars, cleanVars,
                   storeVars, uploaderVars, lookupVars, filterVars, rowVars>>

\* the saved text loaded again
DecodeAgain ==
    /\ codecPc = "encoded"
    /\ reparsed' = parseXML(encoded)
    /\ codecPc' = "reparsed"
    /\ UNCHANGED <<xmlSource, decoded, encoded, flatVars, cleanVars,
                   storeVars, uploaderVars, lookupVars, filterVars, rowVars>>

CodecNext == Decode \/ Encode \/ DecodeAgain

SpecCodec == CodecInit /\ [][CodecNext]_vars

\* C1: decoding the text jsonToXml writes for a decoded document yields the
\* same root name and a document equal to the decoded one.
C1_RoundTrip ==
    codecPc = "reparsed" =>
        /\ reparsed.ok
        /\ reparsed.rootName = decoded.rootName
        /\ reparsed.doc = decoded.doc

\* parsing a source text builds the tree it was written from
SourceTextsParse ==
    \A tree \in SourceTrees :
        LET parsed == parseFromString(writeNode(tree))
        IN  parsed.ok /\ parsed.node = tree


-----------------------------------------------------------------------------
(* lib/store.js.  The store is zustand's create() over the immer middleware:
   an action runs its recipe on a draft of the state; the state committed
   afterwards is deeply frozen; the drafts are revoked when the recipe ends *)

\* JSON.stringify of a string: quoted, with " and \ escaped
quoteJson(str) ==
    <<"\"">>
    \o replaceAll(replaceAll(str, "\\", <<"\\","\\">>), "\"", <<"\\","\"">>)
    \o <<"\"">>

\* JSON.stringify(path): the key under which a table's columns and filters
\* are kept
stringify(path) ==
    <<"[">>
    \o join([i \in 1..Len(path) |->
                IF path[i].seg = "key" THEN quoteJson(path[i].key)
                ELSE indexString(path[i].idx)], <<",">>)
    \o <<"]">>

\* the truthiness of a filter value: '' and null are falsy
truthy(v) == ~(v.t \in {"null", "undefined"} \/ (v.t = "string" /\ Len(v.s) = 0))

hasKey(kv, k) == \E i \in 1..Len(kv) : kv[i].k = k

valueOf(kv, k) == kv[CHOOSE i \in 1..Len(kv) : kv[i].k = k].v

\* delete object[k]
deleteKey(kv, k) == SelectSeq(kv, LAMBDA e : e.k # k)

Call(op, path, index, value) ==
    [op |-> op, path |-> path, index |-> index, value |-> value]

\* what every action leaves as it was unless it says otherwise
Completes(c) ==
    /\ call' = c
    /\ thrown' = ""
    /\ warned' = FALSE
    /\ revoked' = FALSE

notStore == <<flatVars, cleanVars, codecVars, lookupVars, filterVars, rowVars>>

setFile(name, docData, count, log) ==
    /\ fileName' = name
    /\ xmlDoc' = docData
    /\ invalidCharsRemoved' = count
    /\ cleaningLog' = log
    /\ viewingNodePath' = NullPath
    /\ viewingHistory' = <<>>
    /\ nodeForColumnSelection' = NoSelection
    /\ tableColumns' = <<>>
    /\ tableFilters' = <<>>
    /\ Completes(Call("setFile", NullPath, 0, Undefined))

\* setViewingNodePath clearing the document as setFile's reset of the view
\* would if it also dropped xmlDoc
setViewingNodePathDropsDoc(path) ==
    /\ viewingNodePath' = path
    /\ xmlDoc' = NoDoc
    /\ Completes(Call("setViewingNodePath", path, 0, Undefined))
    /\ UNCHANGED <<fileName, viewingHistory, nodeForColumnSelection, tableColumns,
                   tableFilters, invalidCharsRemoved, cleaningLog>>

\* setViewingNodePath pushing the current path without testing it, so that
\* the first navigation after a load pushes null
setViewingNodePathPushesNull(path) ==
    /\ IF ~path.defined
       THEN /\ viewingNodePath' = NullPath
            /\ UNCHANGED viewingHistory
       ELSE IF stringify(path.segs) #
                  (IF viewingNodePath.defined THEN stringify(viewingNodePath.segs)
                                              ELSE <<"n","u","l","l">>)
            THEN /\ viewingHistory' = Append(viewingHistory, viewingNodePath)
                 /\ viewingNodePath' = path
            ELSE UNCHANGED <<viewingNodePath, viewingHistory>>
    /\ Completes(Call("setViewingNodePath", path, 0, Undefined))
    /\ UNCHANGED <<fileName, xmlDoc, nodeForColumnSelection, tableColumns,
                   tableFilters, invalidCharsRemoved, cleaningLog>>

setViewingNodePath(path) ==
    /\ IF ~path.defined
       THEN /\ viewingNodePath' = NullPath
            /\ UNCHANGED viewingHistory
       ELSE LET currentPathKey == IF viewingNodePath.defined
                                  THEN stringify(viewingNodePath.segs)
                                  ELSE <<"n","u","l","l">>
                newPathKey == stringify(path.segs)
            IN  IF newPathKey # currentPathKey
                THEN /\ viewingHistory' =
                            IF viewingNodePath.defined
                            THEN Append(viewingHistory, viewingNodePath)
                            ELSE viewingHistory
                     /\ viewingNodePath' = path
                ELSE UNCHANGED <<viewingNodePath, viewingHistory>>
    /\ Completes(Call("setViewingNodePath", path, 0, Undefined))
    /\ UNCHANGED <<fileName, xmlDoc, nodeForColumnSelection, tableColumns,
                   tableFilters, invalidCharsRemoved, cleaningLog>>

goBack ==
    /\ IF Len(viewingHistory) > 0
       THEN /\ viewingNodePath' = viewingHistory[Len(viewingHistory)]
            /\ viewingHistory' = SubSeq(viewingHistory, 1, Len(viewingHistory) - 1)
       ELSE UNCHANGED <<viewingNodePath, viewingHistory>>
    /\ Completes(Call("goBack", NullPath, 0, Undefined))
    /\ UNCHANGED <<fileName, xmlDoc, nodeForColumnSelection, tableColumns,
                   tableFilters, invalidCharsRemoved, cleaningLog>>

setNodeForColumnSelection(path, parentPath) ==
    /\ nodeForColumnSelection' =
           IF path.defined
           THEN [isNull |-> FALSE, path |-> path.segs,
                 parentPath |-> parentPath, data |-> Null]
           ELSE NoSelection
    /\ Completes(Call("setNodeForColumnSelection", path, 0, Undefined))
    /\ UNCHANGED <<fileName, xmlDoc, viewingNodePath, viewingHistory,
                   tableColumns, tableFilters, invalidCharsRemoved, cleaningLog>>

setTableColumns(path, columns) ==
    /\ tableColumns' = setKey(tableColumns, Prop(stringify(path), columns))
    /\ Completes(Call("setTableColumns", DefinedPath(path), 0, Undefined))
    /\ UNCHANGED <<fileName, xmlDoc, viewingNodePath, viewingHistory,
                   nodeForColumnSelection, tableFilters, invalidCharsRemoved,
                   cleaningLog>>

\* setTableFilter without lines 80-82: the table's map is kept when its
\* last filter is cleared
setTableFilterKeepsMap(path, headerKey, filterValue) ==
    LET pathKey == stringify(path)
        ofPath == IF hasKey(tableFilters, pathKey)
                  THEN valueOf(tableFilters, pathKey) ELSE <<>>
        after == IF truthy(filterValue)
                 THEN setKey(ofPath, Prop(headerKey, filterValue))
                 ELSE deleteKey(ofPath, headerKey)
    IN  /\ tableFilters' = setKey(tableFilters, Prop(pathKey, after))
        /\ Completes(Call("setTableFilter", DefinedPath(path), 0, filterValue))
        /\ UNCHANGED <<fileName, xmlDoc, viewingNodePath, viewingHistory,
                       nodeForColumnSelection, tableColumns, invalidCharsRemoved,
                       cleaningLog>>

setTableFilter(path, headerKey, filterValue) ==
    LET pathKey == stringify(path)
        ofPath == IF hasKey(tableFilters, pathKey)
                  THEN valueOf(tableFilters, pathKey) ELSE <<>>
        after == IF truthy(filterValue)
                 THEN setKey(ofPath, Prop(headerKey, filterValue))
                 ELSE deleteKey(ofPath, headerKey)
    IN  /\ tableFilters' =
               IF ~truthy(filterValue) /\ Len(after) = 0
               THEN deleteKey(tableFilters, pathKey)
               ELSE setKey(tableFilters, Prop(pathKey, after))
        /\ Completes(Call("setTableFilter", DefinedPath(path), 0, filterValue))
        /\ UNCHANGED <<fileName, xmlDoc, viewingNodePath, viewingHistory,
                       nodeForColumnSelection, tableColumns, invalidCharsRemoved,
                       cleaningLog>>

reset ==
    /\ fileName' = ""
    /\ xmlDoc' = NoDoc
    /\ viewingNodePath' = NullPath
    /\ viewingHistory' = <<>>
    /\ nodeForColumnSelection' = NoSelection
    /\ tableColumns' = <<>>
    /\ tableFilters' = <<>>
    /\ invalidCharsRemoved' = 0
    /\ cleaningLog' = [defined |-> TRUE, entries |-> <<>>]
    /\ Completes(Call("reset", NullPath, 0, Undefined))


\* updateNodeValue (lines 86-94).  Inside the store `set` is the store's own
\* set (the parameter of line 9 hides the import of line 5), so line 93 calls
\* setState(partial, replace) with the draft of the document as the new
\* state and fullPath, a non-empty array, as the replace flag: the store
\* takes the draft for its state and nothing is written into the document.
\* The recipe ends, immer revokes the draft, and the outer setState merges
\* the state it holds (the revoked draft) with the recipe's result: it throws
\* a TypeError and the store keeps the revoked draft.
updateNodeValue(path, newValue) ==
    /\ call' = Call("updateNodeValue", path, 0, newValue)
    /\ warned' = FALSE
    /\ IF ~path.defined \/ Len(path.segs) = 0
       THEN /\ thrown' = ""
            /\ revoked' = FALSE
       ELSE /\ thrown' = "TypeError"
            /\ revoked' = TRUE
    /\ UNCHANGED stateVars

\* deleteRow without the Array.isArray test of line 100
deleteRowUnguarded(path, index) ==
    /\ call' = Call("deleteRow", DefinedPath(path), index, Undefined)
    /\ revoked' = FALSE
    /\ thrown' = "TypeError"
    /\ warned' = FALSE
    /\ UNCHANGED stateVars

\* deleteRow (lines 96-105).  The array is read from getStore(), the
\* committed state, which immer froze: splice on it throws a TypeError, the
\* recipe is abandoned and the state stays as it was.
deleteRow(path, index) ==
    LET array == get(xmlDoc.doc, path)
    IN  /\ call' = Call("deleteRow", DefinedPath(path), index, Undefined)
        /\ revoked' = FALSE
        /\ IF isArray(array)
           THEN /\ thrown' = "TypeError"
                /\ warned' = FALSE
           ELSE /\ thrown' = ""
                /\ warned' = TRUE
        /\ UNCHANGED stateVars

-----------------------------------------------------------------------------
(* FileUploader.jsx: handleFile, up to the await of the file's text and
   after it *)

handleFile(file) ==
    /\ reading = NoFile
    /\ IF file.type = "text/xml"
       THEN /\ loading' = TRUE
            /\ error' = <<>>
            /\ reading' = file
       ELSE /\ error' = <<"Please upload a valid XML file.">>
            /\ UNCHANGED <<loading, reading>>
    /\ UNCHANGED storeVars

\* the text of the parsererror element
ParserMessage == "parser message"

\* errorNode.innerText (part_004 line 185).  innerText is a property of HTML
\* elements: where the browser builds the parsererror element in the XHTML
\* namespace it is the parser's message, where it builds it in a namespace
\* of its own (Gecko) the element has no innerText and the template prints
\* 'undefined'
innerText == {ParserMessage, "undefined"}

\* the message of the Error parseXML throws, as handleFile shows it (line 31)
parseErrorMessage(text) ==
    << "Failed to parse XML file. Please check the file format. Error: ",
       "XML Parsing Error: ", text >>

\* the value handed to setFile as docData (lines 22-26)
fileData(parsed, cleaned) ==
    [isNull |-> FALSE,
     doc |-> Obj(<<Prop(parsed.rootName, parsed.doc)>>),
     rootName |-> parsed.rootName,
     originalXml |-> cleaned]

handleFileText ==
    /\ reading # NoFile
    /\ \E c \in {cleanXML(reading.text)} :
          \E parsed \in {parseXML(c.cleaned)} :
             IF parsed.ok
             THEN /\ setFile(reading.name, fileData(parsed, c.cleaned),
                             c.removedCount, [defined |-> FALSE, entries |-> <<>>])
                  /\ UNCHANGED <<loading, error>>
             ELSE /\ \E text \in innerText : error' = parseErrorMessage(text)
                  /\ loading' = FALSE
                  /\ UNCHANGED storeVars
    /\ reading' = NoFile


-----------------------------------------------------------------------------
(* Bounds and inputs of the store: the files uploaded, the paths the tree and
   the table hand to the actions *)

MaxHistory == 2   \* longest viewing history

ListItem(c) == Element(<<"L","I","S","T">>, <<>>,
                       <<Element(<<"C">>, <<>>, <<TextNode(<<c>>)>>)>>)

\* <ROOT><LIST><C>1</C></LIST> ... <INFO N="x"><NAME>n</NAME></INFO></ROOT>
LedgerTree ==
    Element(<<"R","O","O","T">>, <<>>,
        << ListItem("1"), ListItem("2"), ListItem("3"),
           Element(<<"I","N","F","O">>, <<Attr(<<"N">>, <<"x">>)>>,
                   <<Element(<<"N","A","M","E">>, <<>>, <<TextNode(<<"n">>)>>)>>) >>)

Files ==
    { [name |-> "ledger.xml", type |-> "text/xml", text |-> writeNode(LedgerTree)],
      [name |-> "note.xml", type |-> "text/xml",
       text |-> <<BOM, "<","D",">",NUL,"t","<","/","D",">">>],
      [name |-> "broken.xml", type |-> "text/xml", text |-> <<"<","D",">">>],
      [name |-> "notes.txt", type |-> "text/plain", text |-> <<"t">>] }

\* the paths of the nodes below v, as TreeNode builds them: [...path, key]
RECURSIVE treePaths(_, _)
treePaths(v, path) ==
    LET ks == objectKeys(v)
        segment(i) == IF isArray(v) THEN Idx(i - 1) ELSE Key(ks[i])
    IN  UNION { {Append(path, segment(i))}
                \cup treePaths(ownProperty(v, ks[i]), Append(path, segment(i)))
              : i \in 1..Len(ks) }

\* the nodes near the root, which the tree lets the user view
ViewPaths == {p \in treePaths(xmlDoc.doc, <<>>) : Len(p) <= 2}

TablePaths == {p \in ViewPaths : isArray(get(xmlDoc.doc, p))}

\* the cells of scalars in the first row of a table or outside a table,
\* which are editable
CellPaths ==
    {p \in treePaths(xmlDoc.doc, <<>>) :
        /\ get(xmlDoc.doc, p).t = "string"
        /\ \A i \in 1..Len(p) : p[i].seg = "index" => p[i].idx = 0}

Unresolvable == <<Key(xmlDoc.rootName), Key(<<"N","O","P","E">>), Key(<<"C">>)>>

\* the paths handed to updateNodeValue: the path of a cell from the root
\* element name, the same below the root element, the undefined path of an
\* absent cell, the empty path, a path that resolves nowhere
UpdatePaths ==
    {DefinedPath(p) : p \in CellPaths}
    \cup {DefinedPath(Tail(p)) : p \in CellPaths}
    \cup {UndefinedPath, DefinedPath(<<>>), DefinedPath(Unresolvable)}

\* the paths handed to deleteRow: a node near the root, a scalar, a path
\* that resolves nowhere, the empty path
DeletePaths ==
    ViewPaths \cup {p \in CellPaths : Len(p) = 3} \cup {Unresolvable, <<>>}

ColumnChoices ==
    { <<PlainHeader(<<"C">>)>>, <<PlainHeader(<<"C">>), PlainHeader(<<"@","N">>)>> }

FilterValues == {Str(<<"1">>), Str(<<>>), Null}

\* the header keys of the columns a filter is set on
FilterColumns == {<<"C">>, <<"@","N">>}

\* CleaningLogNotification, lines 9-22: with characters removed it maps over
\* cleaningLog, which handleFile never passes to setFile; the render throws
\* and, with no error boundary in App.jsx, React unmounts the application
rendersEditor == invalidCharsRemoved = 0 \/ cleaningLog.defined

\* the editor is on screen and its handlers can run
Loaded == ~revoked /\ ~xmlDoc.isNull /\ rendersEditor

\* ValueRenderer.handleExpand, lines 17-19
insideTable == viewingNodePath.defined /\ viewingNodePath.segs \in TablePaths

Init ==
    /\ FlatIdle
    /\ CleanIdle
    /\ CodecIdle
    /\ LookupIdle
    /\ FilterIdle
    /\ RowsIdle
    /\ StoreIdle

\* a file is dropped on the uploader, which App.jsx shows while no document
\* is loaded
Upload ==
    /\ ~revoked
    /\ xmlDoc.isNull
    /\ \E file \in Files : handleFile(file)
    /\ UNCHANGED notStore

\* the text of the dropped file arrives
UploadText ==
    /\ ~revoked
    /\ handleFileText
    /\ UNCHANGED notStore

\* TreeNode.handleViewNode, ValueRenderer.handleViewObject
ViewNode ==
    /\ Loaded
    /\ Len(viewingHistory) < MaxHistory
    /\ \E path \in {DefinedPath(p) : p \in ViewPaths} \cup {NullPath} :
           setViewingNodePath(path)
    /\ UNCHANGED <<uploaderVars, notStore>>

GoBack ==
    /\ Loaded
    /\ goBack
    /\ UNCHANGED <<uploaderVars, notStore>>

\* TreeNode.handleViewNode on an array, ValueRenderer.handleExpand,
\* ColumnSelectorModal closing
SelectColumnsOf ==
    /\ Loaded
    /\ \E path \in {DefinedPath(p) : p \in TablePaths} \cup {NullPath} :
           setNodeForColumnSelection(path,
               IF insideTable THEN viewingNodePath ELSE NullPath)
    /\ UNCHANGED <<uploaderVars, notStore>>

SetColumns ==
    /\ Loaded
    /\ \E path \in TablePaths, columns \in ColumnChoices :
           setTableColumns(path, columns)
    /\ UNCHANGED <<uploaderVars, notStore>>

SetFilter ==
    /\ Loaded
    /\ \E path \in TablePaths, headerKey \in FilterColumns,
          filterValue \in FilterValues :
           setTableFilter(path, headerKey, filterValue)
    /\ UNCHANGED <<uploaderVars, notStore>>

\* EditableCell.handleBlur
EditCell ==
    /\ Loaded
    /\ \E path \in UpdatePaths : updateNodeValue(path, Str(<<"v">>))
    /\ UNCHANGED <<uploaderVars, notStore>>

\* DataTable.handleDeleteRow
DeleteRow ==
    /\ Loaded
    /\ \E path \in DeletePaths :
          \E index \in 0..(IF isArray(get(xmlDoc.doc, path))
                           THEN Len(get(xmlDoc.doc, path).items) - 1 ELSE 0) :
              deleteRow(path, index)
    /\ UNCHANGED <<uploaderVars, notStore>>

\* Editor's Close File; App.jsx mounts a new FileUploader
Reset ==
    /\ Loaded
    /\ reset
    /\ loading' = FALSE
    /\ error' = <<>>
    /\ UNCHANGED <<reading, notStore>>

Next ==
    \/ Upload
    \/ UploadText
    \/ ViewNode
    \/ GoBack
    \/ SelectColumnsOf
    \/ SetColumns
    \/ SetFilter
    \/ EditCell
    \/ DeleteRow
    \/ Reset

Spec == Init /\ [][Next]_vars


-----------------------------------------------------------------------------
(* Properties of the store *)

\* the value v with newValue at path and everything else as it was
RECURSIVE withValueAt(_, _, _)
withValueAt(v, path, newValue) ==
    IF Len(path) = 0 THEN newValue
    ELSE IF v.t = "object"
    THEN Obj([i \in 1..Len(v.kv) |->
                IF v.kv[i].k = segmentString(Head(path))
                THEN Prop(v.kv[i].k, withValueAt(v.kv[i].v, Tail(path), newValue))
                ELSE v.kv[i]])
    ELSE IF v.t = "array"
    THEN Arr([i \in 1..Len(v.items) |->
                IF indexString(i - 1) = segmentString(Head(path))
                THEN withValueAt(v.items[i], Tail(path), newValue)
                ELSE v.items[i]])
    ELSE v

\* the sequence without its item at a 0-based index
removeAt(items, index) ==
    SubSeq(items, 1, index) \o SubSeq(items, index + 2, Len(items))

\* some segment before the last one leads to no object or array
hasBrokenSegment(doc, path) ==
    \E k \in 1..(Len(path) - 1) : ~isObjectLike(get(doc, SubSeq(path, 1, k)))

\* C2: after updateNodeValue(p, v) on a path p that addresses a location of
\* the loaded document, resolving p yields v and the rest of the document is
\* as it was.
C2_EditWritesAtPath ==
    [][ ( /\ call'.op = "updateNodeValue"
          /\ call'.path.defined
          /\ get(xmlDoc.doc, call'.path.segs) # Undefined )
        => ( /\ ~revoked'
             /\ thrown' = ""
             /\ get(xmlDoc'.doc, call'.path.segs) = call'.value
             /\ xmlDoc'.doc = withValueAt(xmlDoc.doc, call'.path.segs, call'.value) )
      ]_vars

\* C8: updateNodeValue with an empty path, or with a path one of whose
\* intermediate segments resolves to no container, reports InvalidPath and
\* leaves the document as it was.
C8_InvalidPathReported ==
    [][ ( /\ call'.op = "updateNodeValue"
          /\ call'.path.defined
          /\ \/ Len(call'.path.segs) = 0
             \/ hasBrokenSegment(xmlDoc.doc, call'.path.segs) )
        => ( /\ thrown' = "InvalidPath"
             /\ ~revoked'
             /\ xmlDoc' = xmlDoc )
      ]_vars

\* C9: deleteRow(path, i) on a sequence of n items, 0 <= i < n, leaves at
\* path the old sequence without item i, the other items in their order,
\* and changes nothing else in the document.
C9_DeleteShiftsIndexes ==
    [][ ( /\ call'.op = "deleteRow"
          /\ isArray(get(xmlDoc.doc, call'.path.segs))
          /\ call'.index < Len(get(xmlDoc.doc, call'.path.segs).items) )
        => ( /\ thrown' = ""
             /\ ~revoked'
             /\ get(xmlDoc'.doc, call'.path.segs) =
                    Arr(removeAt(get(xmlDoc.doc, call'.path.segs).items, call'.index))
             /\ xmlDoc'.doc =
                    withValueAt(xmlDoc.doc, call'.path.segs,
                        Arr(removeAt(get(xmlDoc.doc, call'.path.segs).items,
                                     call'.index))) )
      ]_vars

\* C10: deleteRow on a target that is not a sequence (an object, a scalar, a
\* path that does not resolve) throws nothing and leaves the document, the
\* viewing path, the history, the columns and the filters as they were.
C10_DeleteOnNonSequenceIsNoOp ==
    [][ ( /\ call'.op = "deleteRow"
          /\ ~isArray(get(xmlDoc.doc, call'.path.segs)) )
        => ( /\ thrown' = ""
             /\ ~revoked'
             /\ UNCHANGED stateVars )
      ]_vars

\* deleteRow was called on an object while a table's filter was set
C10_Witness ==
    /\ call.op = "deleteRow"
    /\ get(xmlDoc.doc, call.path.segs).t = "object"
    /\ warned
    /\ thrown = ""
    /\ Len(tableFilters) > 0


\* the text of the file being read is well formed once cleaned
readsWellFormed == parseXML(cleanXML(reading.text).cleaned).ok

C12_LoadHandsOverDecodeResult ==
    [][ ( /\ reading # NoFile
          /\ reading' = NoFile
          /\ readsWellFormed )
        => LET c == cleanXML(reading.text)
           IN  /\ xmlDoc' = fileData(parseXML(c.cleaned), c.cleaned)
               /\ fileName' = reading.name
               /\ invalidCharsRemoved' = c.removedCount
               /\ cleaningLog' = [defined |-> TRUE, entries |-> c.log]
      ]_vars


-----------------------------------------------------------------------------
(* The three path lookups: the node shown (DataTable), the array a row is
   deleted from (deleteRow), the value of a column (caseInsensitiveGet),
   each applied to a path of names and to the same names in another case *)

toUpperCaseChar(c) ==
    IF \E i \in 1..Len(LowerChars) : LowerChars[i] = c
    THEN UpperChars[CHOOSE i \in 1..Len(LowerChars) : LowerChars[i] = c]
    ELSE c

\* the strings that differ from s only in letter case
RECURSIVE caseVariants(_)
caseVariants(s) ==
    IF Len(s) = 0 THEN {<<>>}
    ELSE {<<c>> \o rest : c \in {toLowerCaseChar(Head(s)), toUpperCaseChar(Head(s))},
                          rest \in caseVariants(Tail(s))}

\* the paths that differ from path only in the letter case of their names
RECURSIVE pathVariants(_)
pathVariants(path) ==
    IF Len(path) = 0 THEN {<<>>}
    ELSE {<<name>> \o rest : name \in caseVariants(Head(path)),
                             rest \in pathVariants(Tail(path))}

\* documents in which every key has one case variant
LookupDocs ==
    { Obj(<<Prop(<<"V","o">>, Obj(<<Prop(<<"i","d">>, Str(<<"1">>))>>))>>),
      Obj(<<Prop(<<"V","O">>, Obj(<<Prop(<<"I","d">>, Arr(<<Str(<<"1">>), Str(<<"2">>)>>))>>)),
            Prop(<<"n","o">>, Str(<<"x">>))>>) }

LookupPaths == pathVariants(<<<<"v","o">>>>) \cup pathVariants(<<<<"v","o">>, <<"i","d">>>>)

keysOf(names) == [i \in 1..Len(names) |-> Key(names[i])]

LookupInit ==
    /\ FlatIdle
    /\ CleanIdle
    /\ CodecIdle
    /\ StoreIdle
    /\ FilterIdle
    /\ RowsIdle
    /\ lookupDoc \in LookupDocs
    /\ lookupPath \in LookupPaths
    /\ lookupVariant \in pathVariants(lookupPath)
    /\ lookupResult = [atPath |-> Undefined, atVariant |-> Undefined]
    /\ lookupPc = "input"

notLookup == <<flatVars, cleanVars, codecVars, storeVars, uploaderVars,
               filterVars, rowVars>>

\* DataTable, line 574: get(xmlDoc.doc, viewingNodePath)
ViewLookup ==
    /\ lookupPc = "input"
    /\ lookupResult' = [atPath    |-> get(lookupDoc, keysOf(lookupPath)),
                        atVariant |-> get(lookupDoc, keysOf(lookupVariant))]
    /\ lookupPc' = "view"
    /\ UNCHANGED <<lookupDoc, lookupPath, lookupVariant, notLookup>>

\* deleteRow, line 99: get(getStore().xmlDoc.doc, path)
DeleteLookup ==
    /\ lookupPc = "input"
    /\ lookupResult' = [atPath    |-> get(lookupDoc, keysOf(lookupPath)),
                        atVariant |-> get(lookupDoc, keysOf(lookupVariant))]
    /\ lookupPc' = "delete"
    /\ UNCHANGED <<lookupDoc, lookupPath, lookupVariant, notLookup>>

\* flattenRow, the value of a column: caseInsensitiveGet(row, pathSegments)
ColumnLookup ==
    /\ lookupPc = "input"
    /\ lookupResult' = [atPath    |-> caseInsensitiveGet(lookupDoc, lookupPath).value,
                        atVariant |-> caseInsensitiveGet(lookupDoc, lookupVariant).value]
    /\ lookupPc' = "column"
    /\ UNCHANGED <<lookupDoc, lookupPath, lookupVariant, notLookup>>

LookupNext == ViewLookup \/ DeleteLookup \/ ColumnLookup

SpecLookup == LookupInit /\ [][LookupNext]_vars

\* C7: two paths whose names differ only in letter case resolve to the same
\* value, in the lookup that shows a node, in the lookup of deleteRow and in
\* the resolution of a column.
C7_CaseInsensitiveLookups ==
    lookupPc \in {"view", "delete", "column"} =>
        lookupResult.atPath = lookupResult.atVariant

-----------------------------------------------------------------------------
(* lib/filterParser.js.  A query is split into terms; a quoted term is a
   phrase, any other term is compiled to the source of a regular expression
   by way of three placeholders.  A placeholder (`__TILDE_${Date.now()}__`
   and its like) is one symbol here: its characters are letters, digits and
   underscores, none of which escapeRegex touches *)

RegexSpecial == {".", "*", "+", "?", "^", "$", "{", "}", "(", ")", "|", "[", "]", "\\"}

\* escapeRegex, lines 7-9: a backslash before every special character
RECURSIVE escapeRegex(_)
escapeRegex(str) ==
    IF Len(str) = 0 THEN <<>>
    ELSE (IF Head(str) \in RegexSpecial THEN <<"\\", Head(str)>> ELSE <<Head(str)>>)
         \o escapeRegex(Tail(str))

PLACEHOLDERS ==
    [TILDE |-> "__TILDE__", STAR_LITERAL |-> "__STAR_LITERAL__",
     WILDCARD |-> "__WILDCARD__"]

\* str.replace(/ab/g, to) for a pattern of two characters: the matches are
\* taken from the left and do not overlap
RECURSIVE replacePair(_, _, _)
replacePair(str, pair, to) ==
    IF Len(str) = 0 THEN <<>>
    ELSE IF Len(str) >= 2 /\ SubSeq(str, 1, 2) = pair
    THEN to \o replacePair(SubSeq(str, 3, Len(str)), pair, to)
    ELSE <<Head(str)>> \o replacePair(Tail(str), pair, to)

\* query.match(/"[^"]+"|\S+/g), line 22: at each position a quoted span with
\* at least one character between the quotes, else a run of non-whitespace
RECURSIVE matchTerms(_, _)
matchTerms(query, i) ==
    IF i > Len(query) THEN <<>>
    ELSE LET close == firstFrom(query, i + 1, LAMBDA c : c = "\"")
             stop  == firstFrom(query, i, isWhiteSpace)
         IN  IF query[i] = "\"" /\ close <= Len(query) /\ close >= i + 2
             THEN <<SubSeq(query, i, close)>> \o matchTerms(query, close + 1)
             ELSE IF ~isWhiteSpace(query[i])
             THEN <<SubSeq(query, i, stop - 1)>> \o matchTerms(query, stop)
             ELSE matchTerms(query, i + 1)

\* String.prototype.endsWith
endsWith(s, p) == Len(p) <= Len(s) /\ SubSeq(s, Len(s) - Len(p) + 1, Len(s)) = p

\* the condition of one term, lines 24-67; value is the phrase, or the
\* source of the RegExp built with the flag i
compileTerm(term) ==
    IF startsWith(term, <<"\"">>) /\ endsWith(term, <<"\"">>)
    THEN [type |-> "phrase", value |-> toLowerCase(SubSeq(term, 2, Len(term) - 1))]
    ELSE LET step1 == replacePair(term, <<"~", "~">>, <<PLACEHOLDERS.TILDE>>)
             step2 == replacePair(step1, <<"~", "*">>, <<PLACEHOLDERS.STAR_LITERAL>>)
             step3 == replaceAll(step2, "*", <<PLACEHOLDERS.WILDCARD>>)
             step4 == escapeRegex(step3)
             step5 == replaceAll(step4, PLACEHOLDERS.TILDE, <<"~">>)
             step6 == replaceAll(step5, PLACEHOLDERS.STAR_LITERAL, <<"\\", "*">>)
             step7 == replaceAll(step6, PLACEHOLDERS.WILDCARD, <<".", "*">>)
         IN  [type |-> "regex", value |-> step7]

parseFilterQuery(query) ==
    IF Len(query) = 0 \/ Len(trim(query)) = 0 THEN <<>>
    ELSE LET terms == matchTerms(query, 1)
         IN  [k \in 1..Len(terms) |-> compileTerm(terms[k])]

(* new RegExp(source, 'i') and RegExp.prototype.test, for the sources
   compileTerm builds: an escaped character, `.*`, `.`, or a plain character.
   `.` matches every character but a line terminator (no flag s); test
   looks for a match starting anywhere in the string *)

isLineTerminator(c) == c \in {LF, CR}

RECURSIVE regexAtoms(_)
regexAtoms(source) ==
    IF Len(source) = 0 THEN <<>>
    ELSE IF Head(source) = "\\" /\ Len(source) >= 2
    THEN <<[kind |-> "char", c |-> source[2]]>> \o regexAtoms(SubSeq(source, 3, Len(source)))
    ELSE IF Head(source) = "." /\ Len(source) >= 2 /\ source[2] = "*"
    THEN <<[kind |-> "dotStar", c |-> "."]>> \o regexAtoms(SubSeq(source, 3, Len(source)))
    ELSE IF Head(source) = "."
    THEN <<[kind |-> "dot", c |-> "."]>> \o regexAtoms(Tail(source))
    ELSE IF Head(source) \in RegexSpecial
    THEN <<[kind |-> "syntax", c |-> Head(source)]>> \o regexAtoms(Tail(source))
    ELSE <<[kind |-> "char", c |-> Head(source)]>> \o regexAtoms(Tail(source))

RECURSIVE matchFrom(_, _, _)
matchFrom(atoms, str, i) ==
    IF Len(atoms) = 0 THEN TRUE
    ELSE LET atom == Head(atoms)
         IN  IF atom.kind = "char"
             THEN /\ i <= Len(str)
                  /\ toLowerCaseChar(str[i]) = toLowerCaseChar(atom.c)
                  /\ matchFrom(Tail(atoms), str, i + 1)
             ELSE IF atom.kind = "dot"
             THEN /\ i <= Len(str)
                  /\ ~isLineTerminator(str[i])
                  /\ matchFrom(Tail(atoms), str, i + 1)
             ELSE IF atom.kind = "dotStar"
             THEN \E j \in i..(Len(str) + 1) :
                     /\ \A k \in i..(j - 1) : ~isLineTerminator(str[k])
                     /\ matchFrom(Tail(atoms), str, j)
             ELSE FALSE

regexTest(source, str) ==
    \E atoms \in {regexAtoms(source)} :
        \E i \in 1..(Len(str) + 1) : matchFrom(atoms, str, i)

\* String.prototype.includes
includes(str, part) == indexOf(str, part, 1) # 0

\* conditions.some(...) with every condition in place of some
testValueEvery(value, conds) ==
    IF Len(conds) = 0 THEN TRUE
    ELSE IF isObjectLike(value) THEN TRUE
    ELSE LET stringValue == IF value.t \in {"null", "undefined"} THEN <<>>
                            ELSE stringOf(value)
         IN  \A k \in 1..Len(conds) :
                IF conds[k].type = "phrase"
                THEN includes(toLowerCase(stringValue), conds[k].value)
                ELSE regexTest(conds[k].value, stringValue)

\* testValue, lines 76-97
testValue(value, conds) ==
    IF Len(conds) = 0 THEN TRUE
    ELSE IF isObjectLike(value) THEN TRUE
    ELSE LET stringValue == IF value.t \in {"null", "undefined"} THEN <<>>
                            ELSE stringOf(value)
         IN  \E k \in 1..Len(conds) :
                IF conds[k].type = "phrase"
                THEN includes(toLowerCase(stringValue), conds[k].value)
                ELSE IF conds[k].type = "regex"
                THEN regexTest(conds[k].value, stringValue)
                ELSE FALSE

-----------------------------------------------------------------------------
(* A query typed into a column filter, compiled and tested on a cell value *)

MaxTokenLen == 3   \* longest enumerated unquoted token
MaxCellLen  == 3   \* longest enumerated cell text

TokenChars == {"a", "*", "~", "."}

Tokens == SeqsUpTo(TokenChars, MaxTokenLen)

\* blank queries, quoted phrases, several terms, stray quotes
PhraseQueries ==
    { <<>>, <<" ">>, <<" ", TAB>>,
      <<"\"", "a", "*", "\"">>,
      <<"\"", "A", " ", ".", "\"">>,
      <<"a", ".", " ", "~", "*">>,
      <<".", " ", "\"", "~", "\"">>,
      <<" ", "a", "*", "a", " ">>,
      <<"\"">>, <<"\"", "\"">> }

Queries == Tokens \cup PhraseQueries

CellChars == {"A", "*", "~", ".", LF}

CellValues ==
    {Str(s) : s \in SeqsUpTo(CellChars, MaxCellLen)}
    \cup { Str(<<>>), Str(<<"a", " ", ".">>), Undefined, Null,
           Obj(<<Prop(<<"A">>, Str(<<"A">>))>>), Arr(<<Str(<<"A">>)>>) }

FilterInit ==
    /\ FlatIdle
    /\ CleanIdle
    /\ CodecIdle
    /\ StoreIdle
    /\ LookupIdle
    /\ RowsIdle
    /\ filterQuery \in Queries
    /\ cellValue \in CellValues
    /\ conditions = <<>>
    /\ passes = FALSE
    /\ filterPc = "input"

notFilter == <<flatVars, cleanVars, codecVars, storeVars, uploaderVars, lookupVars,
               rowVars>>

\* DataTable, parsedFilters: parseFilterQuery(filterValue)
ParseQuery ==
    /\ filterPc = "input"
    /\ conditions' = parseFilterQuery(filterQuery)
    /\ filterPc' = "parsed"
    /\ UNCHANGED <<filterQuery, cellValue, passes, notFilter>>

\* DataTable, filteredRows: testValue(cell.value, conditions)
TestCell ==
    /\ filterPc = "parsed"
    /\ passes' = testValue(cellValue, conditions)
    /\ filterPc' = "tested"
    /\ UNCHANGED <<filterQuery, cellValue, conditions, notFilter>>

FilterNext == ParseQuery \/ TestCell

SpecFilter == FilterInit /\ [][FilterNext]_vars

\* what the wildcard language says of a token and a text, read from the left:
\* ~~ is a tilde, ~* is a star, * is any run of characters, any other
\* character is itself up to letter case
RECURSIVE wildcardMatchesAt(_, _, _)
wildcardMatchesAt(token, text, i) ==
    LET literal(c, rest) ==
            /\ i <= Len(text)
            /\ toLowerCaseChar(text[i]) = toLowerCaseChar(c)
            /\ wildcardMatchesAt(rest, text, i + 1)
    IN  IF Len(token) = 0 THEN TRUE
        ELSE IF Len(token) >= 2 /\ token[1] = "~" /\ token[2] \in {"~", "*"}
        THEN literal(token[2], SubSeq(token, 3, Len(token)))
        ELSE IF token[1] = "*"
        THEN \E j \in i..(Len(text) + 1) : wildcardMatchesAt(Tail(token), text, j)
        ELSE literal(token[1], Tail(token))

wildcardMatches(token, text) ==
    \E i \in 1..(Len(text) + 1) : wildcardMatchesAt(token, text, i)

\* C13: an unquoted token matches a text exactly when the text contains a
\* match of the token read as a wildcard pattern: * any run of characters,
\* ~* a star, ~~ a tilde, every other character itself whatever its case.
C13_WildcardSemantics ==
    ( /\ filterPc = "tested"
      /\ filterQuery \in Tokens
      /\ cellValue.t = "string" )
    => passes = wildcardMatches(filterQuery, cellValue.s)

isBlank(query) == \A k \in 1..Len(query) : isWhiteSpace(query[k])

\* C14: a blank query compiles to no condition and passes every value; an
\* object or array passes; a scalar passes a non-empty condition list exactly
\* when it passes one of its conditions taken alone.
C14_TestIsDisjunction ==
    filterPc = "tested" =>
        /\ (conditions = <<>>) = isBlank(filterQuery)
        /\ conditions = <<>> => passes
        /\ isObjectLike(cellValue) => passes
        /\ (conditions # <<>> /\ ~isObjectLike(cellValue)) =>
               passes = (\E k \in 1..Len(conditions) :
                            testValue(cellValue, <<conditions[k]>>))

\* a text failed the first of two conditions and passed the second
C14_Witness ==
    /\ filterPc = "tested"
    /\ Len(conditions) = 2
    /\ cellValue.t = "string"
    /\ ~testValue(cellValue, <<conditions[1]>>)
    /\ testValue(cellValue, <<conditions[2]>>)
    /\ passes

-----------------------------------------------------------------------------
(* DataTable.jsx: the filters of a table applied to its flat rows.  A filter
   kept in tableFilters[pathKey][headerKey] is a query string (simple) or
   {type: 'advanced', key, query}, as FilterPopover and
   AdvancedFilterPopover hand them to setTableFilter *)

SimpleFilter(query) == [advanced |-> FALSE, key |-> <<>>, query |-> query]
AdvancedFilter(key, query) == [advanced |-> TRUE, key |-> key, query |-> query]

\* checkPathInObject, lines 251-281
\* checkPathInObject asking every element of a sequence to match
RECURSIVE checkPathInObjectEvery(_, _, _)
checkPathInObjectEvery(target, pathSegments, conds) ==
    IF isArray(target)
    THEN \A i \in 1..Len(target.items) :
            checkPathInObjectEvery(target.items[i], pathSegments, conds)
    ELSE IF ~isObjectLike(target) \/ Len(pathSegments) = 0 THEN FALSE
    ELSE LET keys == objectKeys(target)
             at   == firstIndex(keys, LAMBDA k : sameKey(k, Head(pathSegments)))
         IN  IF at = 0 THEN FALSE
             ELSE LET value == ownProperty(target, keys[at])
                  IN  IF Len(pathSegments) = 1
                      THEN IF isArray(value)
                           THEN \A i \in 1..Len(value.items) :
                                   testValue(value.items[i], conds)
                           ELSE testValue(value, conds)
                      ELSE checkPathInObjectEvery(value, Tail(pathSegments), conds)

RECURSIVE checkPathInObject(_, _, _)
checkPathInObject(target, pathSegments, conds) ==
    IF isArray(target)
    THEN \E i \in 1..Len(target.items) :
            checkPathInObject(target.items[i], pathSegments, conds)
    ELSE IF ~isObjectLike(target) \/ Len(pathSegments) = 0 THEN FALSE
    ELSE LET keys == objectKeys(target)
             at   == firstIndex(keys, LAMBDA k : sameKey(k, Head(pathSegments)))
         IN  IF at = 0 THEN FALSE
             ELSE LET value == ownProperty(target, keys[at])
                  IN  IF Len(pathSegments) = 1
                      THEN IF isArray(value)
                           THEN \E i \in 1..Len(value.items) :
                                   testValue(value.items[i], conds)
                           ELSE testValue(value, conds)
                      ELSE checkPathInObject(value, Tail(pathSegments), conds)

\* parsedFilters, lines 301-321: null (here the empty list) without filters,
\* else the conditions of every filter, in the order of its keys
parsedFilters(filters) ==
    [i \in 1..Len(filters) |->
        [k          |-> filters[i].k,
         type       |-> IF filters[i].v.advanced THEN "advanced" ELSE "simple",
         key        |-> filters[i].v.key,
         conditions |-> parseFilterQuery(filters[i].v.query)]]

\* a variant that lets a row without the column pass
rowMatchesAdvancedFilterLenient(originalRow, headerKey, filter, hs) ==
    LET at == firstIndex(hs, LAMBDA h : getHeaderKey(h) = headerKey)
    IN  IF at = 0 \/ hs[at].complex THEN TRUE
        ELSE LET columnData == caseInsensitiveGet(originalRow, <<hs[at].name>>).value
             IN  IF columnData.t \in {"undefined", "null"} THEN TRUE
                 ELSE checkPathInObject(columnData, filter.key, filter.conditions)

\* rowMatchesAdvancedFilter, lines 337-349
rowMatchesAdvancedFilter(originalRow, headerKey, filter, hs) ==
    LET at == firstIndex(hs, LAMBDA h : getHeaderKey(h) = headerKey)
    IN  IF at = 0 \/ hs[at].complex THEN TRUE
        ELSE LET columnData == caseInsensitiveGet(originalRow, <<hs[at].name>>).value
             IN  IF columnData.t \in {"undefined", "null"} THEN FALSE
                 ELSE checkPathInObject(columnData, filter.key, filter.conditions)

\* cellMatchesSimpleFilter, lines 352-355: flatRow[headerKey]?.value
cellMatchesSimpleFilter(flatRow, headerKey, filter) ==
    LET at == firstIndex(flatRow.values, LAMBDA cell : cell.k = headerKey)
        value == IF at = 0 THEN Undefined ELSE flatRow.values[at].value
    IN  testValue(value, filter.conditions)

\* !originalRow
falsy(v) == v.t \in {"undefined", "null"} \/ (v.t = "string" /\ Len(v.s) = 0)

\* the verdict of one filter on one flat row, lines 359-369
matchesFilter(flatRow, filter, d, hs) ==
    IF filter.type = "advanced"
    THEN LET originalRow == IF flatRow.originalIndex < Len(d.items)
                            THEN d.items[flatRow.originalIndex + 1]
                            ELSE Undefined
         IN  IF falsy(originalRow) THEN FALSE
             ELSE rowMatchesAdvancedFilter(originalRow, filter.k, filter, hs)
    ELSE cellMatchesSimpleFilter(flatRow, filter.k, filter)

\* activeFilterKeys.some in place of activeFilterKeys.every
filteredRowsOfSome(rows, parsed, d, hs) ==
    LET active == SelectSeq(parsed, LAMBDA p : Len(p.conditions) > 0)
    IN  IF Len(parsed) = 0 \/ Len(active) = 0 THEN rows
        ELSE SelectSeq(rows, LAMBDA flatRow :
                \E i \in 1..Len(active) : matchesFilter(flatRow, active[i], d, hs))

\* filteredRows, lines 323-372
filteredRowsOf(rows, parsed, d, hs) ==
    LET active == SelectSeq(parsed, LAMBDA p : Len(p.conditions) > 0)
    IN  IF Len(parsed) = 0 \/ Len(active) = 0 THEN rows
        ELSE SelectSeq(rows, LAMBDA flatRow :
                \A i \in 1..Len(active) : matchesFilter(flatRow, active[i], d, hs))

\* the delete button of a row group hands over the position in filteredRows
handleDeleteAtPosition(rows, index, confirmed) ==
    IF confirmed THEN index - 1 ELSE -1

\* the delete button of the row at `index` of filteredRows (lines 426-448,
\* 293-297): shown on the first row of a group, it asks for confirmation and
\* calls onDeleteRow(row.__originalIndex), which is deleteRow(path, index)
handleDelete(rows, index, confirmed) ==
    IF confirmed THEN rows[index].originalIndex ELSE -1

isFirstInGroup(rows, index) ==
    IF index = 1 THEN TRUE
    ELSE rows[index - 1].originalIndex # rows[index].originalIndex

-----------------------------------------------------------------------------
(* A table: its rows flattened, filtered, and a delete button clicked *)

MaxTableRows == 2   \* most top-level rows of a filtered table

TableItem(branch, d, e) ==
    Obj(<<Prop(<<"A">>, Obj(<<Prop(<<"B">>, branch)>>)),
          Prop(<<"D">>, Str(d)),
          Prop(<<"E">>, e)>>)

ItemC(c) == Obj(<<Prop(<<"C">>, Str(<<c>>))>>)

\* rows with a two-item branch, a single-item branch, an E that is an object
\* or a sequence of objects, and a row with neither A nor E
FilterRows ==
    { TableItem(Arr(<<ItemC("1"), ItemC("2")>>), <<"x">>,
                Obj(<<Prop(<<"F">>, Str(<<"p">>))>>)),
      TableItem(ItemC("1"), <<"y">>,
                Obj(<<Prop(<<"F">>, Arr(<<Str(<<"q">>), Str(<<"p">>)>>))>>)),
      TableItem(Arr(<<ItemC("2"), ItemC("1")>>), <<"y">>,
                Arr(<<Obj(<<Prop(<<"F">>, Str(<<"q">>))>>),
                      Obj(<<Prop(<<"G">>, Str(<<"p">>))>>)>>)),
      Obj(<<Prop(<<"D">>, Str(<<"x">>))>>) }

FilterCollections == {Arr(q) : q \in SeqsUpTo(FilterRows, MaxTableRows)}

ColumnD  == PlainHeader(<<"D">>)
ColumnE  == PlainHeader(<<"e">>)
ColumnBC == ComplexHeader(ParentAB, <<"c">>)

TableHeaderLists ==
    { <<ColumnD>>, <<ColumnD, ColumnBC>>, <<ColumnBC, ColumnE, ColumnD>> }

\* the filters a column can hold; <<>> stands for none
FiltersOfD ==
    { <<>>, <<Prop(<<"D">>, SimpleFilter(<<"x">>))>>,
      <<Prop(<<"D">>, SimpleFilter(<<"x", " ", "y">>))>>,
      <<Prop(<<"D">>, SimpleFilter(<<" ">>))>> }

FiltersOfBC ==
    { <<>>, <<Prop(getHeaderKey(ColumnBC), SimpleFilter(<<"1">>))>>,
      <<Prop(getHeaderKey(ColumnBC), SimpleFilter(<<"2">>))>> }

FiltersOfE ==
    { <<>>, <<Prop(<<"e">>, AdvancedFilter(<<<<"F">>>>, <<"p">>))>>,
      <<Prop(<<"e">>, AdvancedFilter(<<<<"f">>>>, <<"q">>))>>,
      <<Prop(<<"e">>, AdvancedFilter(<<<<"G">>>>, <<"p">>))>>,
      <<Prop(<<"e">>, AdvancedFilter(<<<<"F">>>>, <<>>))>> }

FilterSets == {d \o bc \o e : d \in FiltersOfD, bc \in FiltersOfBC, e \in FiltersOfE}

TableInit ==
    /\ CleanIdle
    /\ CodecIdle
    /\ StoreIdle
    /\ LookupIdle
    /\ FilterIdle
    /\ data \in FilterCollections
    /\ headers \in TableHeaderLists
    /\ pathPrefix = TablePath
    /\ allFlatRows = <<>>
    /\ flatPc = "input"
    /\ filtersForTable \in FilterSets
    /\ filteredRows = <<>>
    /\ deleted = NoDelete

notRows == <<cleanVars, codecVars, storeVars, uploaderVars, lookupVars, filterVars>>

\* DataTableContent, lines 301-372
ApplyFilters ==
    /\ flatPc = "done"
    /\ filteredRows' = filteredRowsOf(allFlatRows, parsedFilters(filtersForTable),
                                      data, headers)
    /\ flatPc' = "filtered"
    /\ UNCHANGED <<data, headers, pathPrefix, allFlatRows, filtersForTable,
                   deleted, notRows>>

\* the delete button of a row group, confirmed or not
ClickDelete ==
    /\ flatPc = "filtered"
    /\ \E index \in 1..Len(filteredRows), confirmed \in BOOLEAN :
          /\ isFirstInGroup(filteredRows, index)
          /\ deleted' = [position |-> index,
                         index |-> handleDelete(filteredRows, index, confirmed)]
    /\ flatPc' = "clicked"
    /\ UNCHANGED <<data, headers, pathPrefix, allFlatRows, filtersForTable,
                   filteredRows, notRows>>

TableNext == Flatten \/ ApplyFilters \/ ClickDelete

SpecTable == TableInit /\ [][TableNext]_vars

-----------------------------------------------------------------------------
(* Properties of the filtered rows *)

\* the filters of the table whose query compiles to at least one condition
activeFilters ==
    SelectSeq(parsedFilters(filtersForTable), LAMBDA p : p.conditions # <<>>)

\* C15: the filtered rows are the flat rows, in their order, that satisfy
\* every active filter of the table; without an active filter they are all
\* the flat rows.
C15_ConjunctiveRows ==
    flatPc \in {"filtered", "clicked"} =>
        /\ filteredRows =
              SelectSeq(allFlatRows, LAMBDA flatRow :
                 \A i \in 1..Len(activeFilters) :
                    matchesFilter(flatRow, activeFilters[i], data, headers))
        /\ Len(activeFilters) = 0 => filteredRows = allFlatRows

\* with two active filters, a row that satisfies one of them only is left
\* out while another row is kept
C15_Witness ==
    /\ flatPc = "filtered"
    /\ Len(activeFilters) = 2
    /\ Len(filteredRows) > 0
    /\ \E i \in 1..Len(allFlatRows) :
          /\ matchesFilter(allFlatRows[i], activeFilters[1], data, headers)
          /\ ~matchesFilter(allFlatRows[i], activeFilters[2], data, headers)
          /\ \A j \in 1..Len(filteredRows) : filteredRows[j] # allFlatRows[i]

\* the key-path predicate: a sequence holds it when one of its items does;
\* an object holds it when the child named by the first segment (whatever
\* its letter case) holds the rest; at the last segment a sequence is tested
\* item by item and any other value directly
RECURSIVE keyPathHolds(_, _, _)
keyPathHolds(value, key, conds) ==
    IF value.t = "array"
    THEN \E i \in 1..Len(value.items) : keyPathHolds(value.items[i], key, conds)
    ELSE IF value.t # "object" \/ Len(key) = 0 THEN FALSE
    ELSE LET named == {i \in 1..Len(value.kv) :
                          toLowerCase(value.kv[i].k) = toLowerCase(Head(key))}
         IN  IF named = {} THEN FALSE
             ELSE LET child == value.kv[CHOOSE i \in named : \A j \in named : i <= j].v
                  IN  IF Len(key) > 1 THEN keyPathHolds(child, Tail(key), conds)
                      ELSE IF child.t = "array"
                      THEN \E i \in 1..Len(child.items) : testValue(child.items[i], conds)
                      ELSE testValue(child, conds)

\* the value of plain column `name` in the top-level row a flat row came from
columnValueOf(flatRow, name) ==
    caseInsensitiveGet(data.items[flatRow.originalIndex + 1], <<name>>).value

\* the verdict of an advanced filter on a flat row, taken on its top-level row
advancedVerdict(flatRow, filter, name) ==
    /\ columnValueOf(flatRow, name).t \notin {"undefined", "null"}
    /\ keyPathHolds(columnValueOf(flatRow, name), filter.key, filter.conditions)

\* the plain columns shown that hold an active advanced filter
advancedColumns ==
    {<<i, j>> \in (1..Len(activeFilters)) \X (1..Len(headers)) :
        /\ activeFilters[i].type = "advanced"
        /\ ~headers[j].complex
        /\ getHeaderKey(headers[j]) = activeFilters[i].k
        /\ \A k \in 1..(j - 1) : getHeaderKey(headers[k]) # activeFilters[i].k}

\* C16: a flat row passes an active advanced filter on a plain column exactly
\* when the column's value in its top-level row satisfies the key-path
\* predicate: every row kept satisfies it, and when it is the only active
\* filter the rows kept are exactly those whose top-level row satisfies it
\* (an absent column value fails).
C16_AdvancedPerOriginalRow ==
    flatPc \in {"filtered", "clicked"} =>
        \A c \in advancedColumns :
            LET filter == activeFilters[c[1]]
                name   == headers[c[2]].name
            IN  /\ \A i \in 1..Len(filteredRows) :
                      advancedVerdict(filteredRows[i], filter, name)
                /\ Len(activeFilters) = 1 =>
                      filteredRows =
                          SelectSeq(allFlatRows, LAMBDA flatRow :
                              advancedVerdict(flatRow, filter, name))

\* an advanced filter alone keeps both flat rows of one top-level row and
\* drops a row whose column is absent
C16_Witness ==
    /\ flatPc = "filtered"
    /\ Len(activeFilters) = 1
    /\ advancedColumns # {}
    /\ \E i \in 1..(Len(filteredRows) - 1) :
          filteredRows[i].originalIndex = filteredRows[i + 1].originalIndex
    /\ \E i \in 1..Len(allFlatRows) :
          /\ columnValueOf(allFlatRows[i], <<"e">>) = Undefined
          /\ \A j \in 1..Len(filteredRows) :
                filteredRows[j].originalIndex # allFlatRows[i].originalIndex


\* the flat rows of top-level row r (0-based), in their order
groupOf(r) == SelectSeq(allFlatRows, LAMBDA flatRow : flatRow.originalIndex = r)

\* the cell of a column in a flat row
cellAt(flatRow, header) ==
    flatRow.values[CHOOSE i \in 1..Len(flatRow.values) :
                      flatRow.values[i].k = getHeaderKey(header)]

\* C20: the original indexes of the flat rows never decrease and are indexes
\* of top-level items; every row holds the plain columns of the item at its
\* original index and its cell paths pass through that index; the rows
\* fanned out of a sequence follow the order of its items; and a confirmed
\* delete hands deleteRow the original index of the row clicked.
C20_RowOrderAndOriginalIndex ==
    flatPc # "input" =>
        /\ \A i \in 1..Len(allFlatRows) :
              /\ allFlatRows[i].originalIndex \in 0..(Len(data.items) - 1)
              /\ i > 1 => allFlatRows[i - 1].originalIndex <= allFlatRows[i].originalIndex
              /\ \A j \in 1..Len(headers) :
                    LET cell == cellAt(allFlatRows[i], headers[j])
                    IN  /\ ~headers[j].complex =>
                              cell.value = columnValueOf(allFlatRows[i], headers[j].name)
                        /\ cell.path.defined =>
                              cell.path.segs[Len(pathPrefix) + 1]
                                  = Idx(allFlatRows[i].originalIndex)
        /\ \A r \in 0..(Len(data.items) - 1), j \in 1..Len(headers) :
              LET branch == caseInsensitiveGet(data.items[r + 1], headers[j].parent).value
              IN  (headers[j].complex /\ isArray(branch) /\ Len(branch.items) >= 1) =>
                      /\ Len(groupOf(r)) = Len(branch.items)
                      /\ \A k \in 1..Len(groupOf(r)) :
                            cellAt(groupOf(r)[k], headers[j]).value
                                = childField(branch.items[k], headers[j].child)
        /\ (flatPc = "clicked" /\ deleted.index # -1) =>
              /\ deleted.index = filteredRows[deleted.position].originalIndex
              /\ deleted.index \in 0..(Len(data.items) - 1)

\* the delete button clicked belongs to a row whose position among the
\* filtered rows is not its original index, in a table with a fanned-out row
C20_Witness ==
    /\ flatPc = "clicked"
    /\ deleted.index # -1
    /\ deleted.index # deleted.position - 1
    /\ Len(filteredRows) < Len(allFlatRows)
    /\ Len(allFlatRows) > Len(data.items)

-----------------------------------------------------------------------------
(* Repeated sibling elements (xmlToJson lines 213-237, toXml lines 280-312) *)

\* the child elements of a DOM element that carry one tag, in document order
elementsNamed(node, tag) ==
    SelectSeq(node.childNodes, LAMBDA c : c.nodeType = 1 /\ c.nodeName = tag)

\* the value stored under key k of a key list
valueUnder(kv, k) == kv[CHOOSE i \in 1..Len(kv) : kv[i].k = k].v

\* the decoded item is the child element's own content: its attributes under
\* '@attributes' and its text under '#text' when it has attributes, its
\* text alone when it has neither attributes nor child elements
itemCarries(item, kid) ==
    IF Len(kid.attributes) > 0
    THEN /\ item.t = "object"
         /\ hasKey(item.kv, AttributesKey)
         /\ LET attrs == valueUnder(item.kv, AttributesKey)
            IN  /\ attrs.t = "object"
                /\ Len(attrs.kv) = Len(kid.attributes)
                /\ \A i \in 1..Len(attrs.kv) :
                      attrs.kv[i] = Prop(kid.attributes[i].nodeName,
                                         Str(kid.attributes[i].nodeValue))
         /\ IF Len(textOf(kid.childNodes)) > 0
            THEN /\ hasKey(item.kv, TextKey)
                 /\ valueUnder(item.kv, TextKey) = Str(textOf(kid.childNodes))
            ELSE ~hasKey(item.kv, TextKey)
    ELSE IF Len(childNames(kid.childNodes, <<>>)) = 0
    THEN item = Str(textOf(kid.childNodes))
    ELSE item.t = "object" /\ ~hasKey(item.kv, AttributesKey)

\* C17: an element with k >= 2 child elements of one tag decodes to a k-item
\* sequence under that tag in document order, each item carrying its own
\* '@attributes' and '#text'; a tag occurring once decodes to a single value,
\* not a one-item sequence; and encoding emits exactly k sibling elements of
\* that tag, in item order, with their attributes and text.
C17_RepeatedSiblings ==
    codecPc \in {"decoded", "encoded", "reparsed"} =>
      LET root == parseFromString(xmlSource).node
          tags == childNames(root.childNodes, <<>>)
      IN  \A n \in 1..Len(tags) :
            LET kids == elementsNamed(root, tags[n])
            IN  /\ decoded.doc.t = "object"
                /\ hasKey(decoded.doc.kv, tags[n])
                /\ LET v == valueUnder(decoded.doc.kv, tags[n])
                   IN  IF Len(kids) >= 2
                       THEN /\ isArray(v)
                            /\ Len(v.items) = Len(kids)
                            /\ \A i \in 1..Len(kids) : itemCarries(v.items[i], kids[i])
                       ELSE ~isArray(v) /\ itemCarries(v, kids[1])
                /\ codecPc \in {"encoded", "reparsed"} =>
                     LET emitted == parseFromString(encoded)
                     IN  /\ emitted.ok
                         /\ LET out == elementsNamed(emitted.node, tags[n])
                            IN  /\ Len(out) = Len(kids)
                                /\ \A i \in 1..Len(kids) :
                                      /\ out[i].attributes = kids[i].attributes
                                      /\ textOf(out[i].childNodes)
                                           = textOf(kids[i].childNodes)

\* two A elements with different attributes and text have been decoded to a
\* two-item sequence and encoded again
C17_Witness ==
    /\ codecPc = "encoded"
    /\ decoded.doc.t = "object"
    /\ hasKey(decoded.doc.kv, <<"A">>)
    /\ LET v == valueUnder(decoded.doc.kv, <<"A">>)
       IN  /\ isArray(v)
           /\ Len(v.items) = 2
           /\ v.items[1].t = "object"
           /\ v.items[2].t = "object"
           /\ hasKey(v.items[1].kv, TextKey)
           /\ hasKey(v.items[1].kv, AttributesKey)
           /\ v.items[1] # v.items[2]

-----------------------------------------------------------------------------
(* Escaping on save (escapeXml lines 272-278, toXml lines 280-312) *)

XmlReserved == {"&", "<", ">", "\"", "'"}

\* the text with every reference the XML processor knows replaced by its
\* character; a "&" that starts no reference stays
RECURSIVE unescapeXml(_)
unescapeXml(t) ==
    LET amp == indexOf(t, <<"&">>, 1)
    IN  IF amp = 0 THEN t
        ELSE Bind(parseReference(t, amp), LAMBDA r :
                 IF r.ok
                 THEN SubSeq(t, 1, amp - 1) \o <<r.char>>
                      \o unescapeXml(SubSeq(t, r.pos, Len(t)))
                 ELSE SubSeq(t, 1, amp) \o unescapeXml(SubSeq(t, amp + 1, Len(t))))

\* the strings a decoded value holds: texts and attribute values
RECURSIVE stringsOf(_)
stringsOf(v) ==
    IF v.t = "string" THEN {v.s}
    ELSE IF v.t = "object"
    THEN UNION { stringsOf(v.kv[i].v) : i \in 1..Len(v.kv) }
    ELSE IF v.t = "array"
    THEN UNION { stringsOf(v.items[i]) : i \in 1..Len(v.items) }
    ELSE {}

\* the number of "&" in a text
ampersands(t) == Cardinality({i \in 1..Len(t) : t[i] = "&"})

\* the escaped text is the original with each reserved character replaced by
\* its entity reference and every other character left in place
escapesExactlyFive(str) ==
    LET out == escapeXml(str)
        at[i \in 0..Len(str)] ==
            IF i = 0 THEN 1
            ELSE at[i - 1] + (IF str[i] \in XmlReserved
                              THEN Len(referenceTo(str[i])) ELSE 1)
    IN  /\ Len(out) = at[Len(str)] - 1
        /\ \A i \in 1..Len(str) :
              SubSeq(out, at[i - 1], at[i] - 1)
                = (IF str[i] \in XmlReserved THEN referenceTo(str[i]) ELSE <<str[i]>>)

\* C18: encoding replaces exactly the five reserved characters & < > " ' of
\* every text and attribute value by their entity references and leaves every
\* other character unchanged; unescaping the escaped text gives the original;
\* and saving what was loaded from a saved text adds no escaping: the second
\* saved text parses and holds as many "&" as the first.
C18_EscapingIsExactAndStable ==
    codecPc = "reparsed" =>
        /\ \A str \in stringsOf(decoded.doc) :
              /\ escapesExactlyFive(str)
              /\ unescapeXml(escapeXml(str)) = str
              /\ Len(str) > 0 => indexOf(encoded, escapeXml(str), 1) > 0
        /\ reparsed.ok
        /\ LET again == jsonToXml(Obj(<<Prop(reparsed.rootName, reparsed.doc)>>),
                                  reparsed.rootName)
           IN  /\ ampersands(again) = ampersands(encoded)
               /\ \A str \in stringsOf(reparsed.doc) :
                     indexOf(again, escapeXml(str), 1) > 0

\* the value "&lt;" (four characters) has been saved as "&amp;lt;" and loaded
\* again, and is about to be saved a second time
C18_Witness ==
    /\ codecPc = "reparsed"
    /\ reparsed.ok
    /\ <<"&","l","t",";">> \in stringsOf(reparsed.doc)
    /\ indexOf(encoded, <<"&","a","m","p",";","l","t",";">>, 1) > 0

-----------------------------------------------------------------------------
(* The sanitizer's output (cleanXML lines 141-173) *)

\* every code point of the text is a Char of XML 1.0: no NUL, no other C0
\* control but TAB, LF and CR, no U+FFFE or U+FFFF, and a surrogate code unit
\* only as half of a pair, which is one code point of U+10000-U+10FFFF
isXmlLegal(t) ==
    \A i \in 1..Len(t) :
        /\ t[i] \notin {NUL, CTRL, VT, NONCHAR}
        /\ t[i] = HIGH => (i < Len(t) /\ t[i + 1] = LOW)
        /\ t[i] = LOW => (i > 1 /\ t[i - 1] = HIGH)

\* C19: for every input text cleanXML returns a result, and the text it
\* returns holds no NUL and no code point outside TAB, LF, CR, U+0020-U+D7FF,
\* U+E000-U+FFFD, U+10000-U+10FFFF; at worst the result is the empty text.
C19_SanitizerOutputLegal ==
    cleanPc \in {"cleaned", "recleaned"} =>
        /\ isXmlLegal(firstClean.cleaned)
        /\ firstClean.removedCount = Len(xmlString) - Len(firstClean.cleaned)
        /\ firstClean.removedCount \in 0..Len(xmlString)
        /\ firstClean.removedCount = Len(xmlString) <=> firstClean.cleaned = <<>>
        /\ cleanPc = "recleaned" => isXmlLegal(secondClean.cleaned)

\* a text with a NUL and a surrogate code unit has been cleaned
C19_Witness ==
    /\ cleanPc = "cleaned"
    /\ \E i \in 1..Len(xmlString) : xmlString[i] = NUL
    /\ \E i \in 1..Len(xmlString) : xmlString[i] \in {HIGH, LOW}
    /\ ~isXmlLegal(xmlString)
    /\ firstClean.removedCount > 0

-----------------------------------------------------------------------------
(* The life of a filter (store.js setTableFilter 69-84, setFile 20-31,
   reset 107-118) *)

\* a step in which the store action op ran
storeStep(op) == call'.op = op /\ storeVars' # storeVars

\* state.tableFilters[pathKey]?.[headerKey]
filterEntry(filters, pathKey, headerKey) ==
    IF hasKey(filters, pathKey) /\ hasKey(valueOf(filters, pathKey), headerKey)
    THEN valueOf(valueOf(filters, pathKey), headerKey)
    ELSE Undefined

tableKeys(filters) == { filters[i].k : i \in 1..Len(filters) }

\* C21: (a) a setTableFilter call leaves an entry for its table path and
\* column exactly when its value is non-empty, and leaves every other entry
\* as it was, and no other action but setFile and reset touches the filters,
\* so an entry exists iff the last setTableFilter for it carried a non-empty
\* value; (b) tableFilters never holds an empty per-table map; (c) setFile
\* and reset leave tableFilters and tableColumns empty.
C21_FilterLifecycle ==
    [][ /\ storeStep("setTableFilter") =>
             \E headerKey \in FilterColumns :
                \A pathKey \in tableKeys(tableFilters) \cup tableKeys(tableFilters')
                               \cup {stringify(call'.path.segs)},
                   column \in FilterColumns :
                     filterEntry(tableFilters', pathKey, column) =
                        IF pathKey = stringify(call'.path.segs) /\ column = headerKey
                        THEN (IF truthy(call'.value) THEN call'.value ELSE Undefined)
                        ELSE filterEntry(tableFilters, pathKey, column)
        /\ \A i \in 1..Len(tableFilters') : Len(tableFilters'[i].v) > 0
        /\ (storeStep("setFile") \/ storeStep("reset")) =>
             (tableFilters' = <<>> /\ tableColumns' = <<>>)
        /\ (storeVars' # storeVars
            /\ call'.op \notin {"setTableFilter", "setFile", "reset"}) =>
             tableFilters' = tableFilters
      ]_vars

\* one column's filter of a table has just been cleared while the filter of
\* another column of the same table stays
C21_Witness ==
    /\ call.op = "setTableFilter"
    /\ ~truthy(call.value)
    /\ Len(tableFilters) = 1
    /\ Len(tableFilters[1].v) = 1

-----------------------------------------------------------------------------
(* The context of a composite column (flattenRow lines 107-123): rows and
   column lists in which one tag name is a string prefix of another and in
   which a tag name contains '.' *)

ItemOfC(c) == Obj(<<Prop(<<"C">>, Str(<<c>>))>>)

ContextRows ==
    { \* {A: {B: [{C:1},{C:2}], BC: {C:3}}}
      Obj(<<Prop(<<"A">>, Obj(<<Prop(<<"B">>, Arr(<<ItemOfC("1"), ItemOfC("2")>>)),
                                Prop(<<"B","C">>, ItemOfC("3"))>>))>>),
      \* {A: {B: {C:1}, BC: [{C:3},{C:4}]}}
      Obj(<<Prop(<<"A">>, Obj(<<Prop(<<"B">>, ItemOfC("1")),
                                Prop(<<"B","C">>, Arr(<<ItemOfC("3"), ItemOfC("4")>>))>>))>>),
      \* {A: {C:9, B: {C:1}}, 'A.B': {C:5}}
      Obj(<<Prop(<<"A">>, Obj(<<Prop(<<"C">>, Str(<<"9">>)),
                                Prop(<<"B">>, ItemOfC("1"))>>)),
            Prop(<<"A",".","B">>, ItemOfC("5"))>>) }

ContextCollections == {Arr(q) : q \in SeqsUpTo(ContextRows, MaxRows)}

ContextHeaderChoices ==
    { ComplexHeader(ParentAB, <<"c">>),
      ComplexHeader(ParentAB, <<"C">>),
      ComplexHeader(<<<<"A">>, <<"B","C">>>>, <<"C">>),
      ComplexHeader(<<<<"A",".","B">>>>, <<"C">>),
      ComplexHeader(<<<<"A">>>>, ValueHeader),
      PlainHeader(<<"A">>) }

ContextHeaderLists == SeqsUpTo(ContextHeaderChoices, MaxHeaders)

ContextInit ==
    /\ CleanIdle
    /\ CodecIdle
    /\ StoreIdle
    /\ LookupIdle
    /\ FilterIdle
    /\ RowsIdle
    /\ data \in ContextCollections
    /\ headers \in ContextHeaderLists
    /\ pathPrefix = TablePath
    /\ allFlatRows = <<>>
    /\ flatPc = "input"

SpecContext == ContextInit /\ [][FlatNext]_vars

\* the keys a composite column's cell path must walk below the top-level
\* row: the segments of the parent path, then the child field
expectedKeys(h) ==
    h.parent
    \o (IF startsWith(h.child, <<"@">>) THEN <<AttributesKey, slice(h.child, 1)>>
        ELSE IF h.child = ValueHeader THEN <<>>
        ELSE <<h.child>>)

\* the keys of a path, its index segments left out
keySegments(path) ==
    LET keys == SelectSeq(path, LAMBDA seg : seg.seg = "key")
    IN  [i \in 1..Len(keys) |-> keys[i].key]

sameKeys(p, q) ==
    /\ Len(p) = Len(q)
    /\ \A i \in 1..Len(p) : toLowerCase(p[i]) = toLowerCase(q[i])

headerKeysDistinct ==
    \A i, j \in 1..Len(headers) :
        i # j => getHeaderKey(headers[i]) # getHeaderKey(headers[j])

\* C22: the cell of a composite column with parent path P and child c is
\* read from an item reached from the top-level row by following exactly
\* the segments of P (case-insensitively, through sequences), also when one
\* tag name is a string prefix of another or contains '.': the cell's path
\* starts at the row and walks the keys of P and then of c, with item
\* indexes in between.
C22_ContextIsSegmentWise ==
    (flatPc = "done" /\ headerKeysDistinct) =>
        \A i \in 1..Len(allFlatRows) : \A k \in 1..Len(headers) :
            headers[k].complex =>
                LET cell == cellOf(allFlatRows[i], getHeaderKey(headers[k]))
                    fromRow == pathPrefix \o <<Idx(allFlatRows[i].originalIndex)>>
                IN  cell.path.defined =>
                        /\ Len(cell.path.segs) >= Len(fromRow)
                        /\ SubSeq(cell.path.segs, 1, Len(fromRow)) = fromRow
                        /\ sameKeys(keySegments(SubSeq(cell.path.segs, Len(fromRow) + 1,
                                                       Len(cell.path.segs))),
                                    expectedKeys(headers[k]))

-----------------------------------------------------------------------------
(* Columns whose parent path meets no sequence (flattenRow lines 121-166) *)

\* the values reached from v by following the segments of a parent path,
\* matching keys case-insensitively and going through every item of a
\* sequence met on the way
RECURSIVE resolveAll(_, _)
resolveAll(v, segments) ==
    IF Len(segments) = 0 THEN {v}
    ELSE IF isArray(v)
    THEN UNION { resolveAll(v.items[i], segments) : i \in 1..Len(v.items) }
    ELSE IF v.t = "object"
    THEN UNION { resolveAll(v.kv[i].v, Tail(segments)) :
                   i \in { j \in 1..Len(v.kv) :
                             toLowerCase(v.kv[j].k) = toLowerCase(Head(segments)) } }
    ELSE {}

\* the parent path is absent in the row: a key is missing, the value is
\* null, or the path passes through a scalar
absentIn(row, h) ==
    \A v \in resolveAll(row, h.parent) : v.t \in {"null", "undefined"}

\* the parent path resolves to one object or scalar
singleIn(row, h) ==
    LET v == caseInsensitiveGet(row, h.parent).value
    IN  v.t \in {"object", "string"}

\* the column list without its k-th column
dropHeader(hs, k) == SubSeq(hs, 1, k - 1) \o SubSeq(hs, k + 1, Len(hs))

\* C23: a composite column whose parent path is absent in a row adds to each
\* of the row's flat rows one cell with undefined value and undefined path
\* and no row; one whose parent path resolves to a single object or scalar
\* adds no row and a cell whose path holds no index below the row; every
\* top-level row yields at least one flat row and every flat row has a cell
\* entry for every column.
C23_NoFanOutWithoutSequence ==
    flatPc = "done" =>
        \A r \in 1..Len(data.items) :
            LET row == data.items[r]
                rs  == RowsOf(r - 1)
            IN  /\ Len(rs) >= 1
                /\ \A i \in 1..Len(rs) : \A k \in 1..Len(headers) :
                      hasKey(rs[i].values, getHeaderKey(headers[k]))
                /\ \A k \in 1..Len(headers) :
                      LET h == headers[k]
                          without == flattenRow(row, r - 1, dropHeader(headers, k),
                                                pathPrefix)
                      IN  /\ (h.complex /\ headerKeysDistinct /\ absentIn(row, h)) =>
                                /\ Len(rs) = Len(without)
                                /\ \A i \in 1..Len(rs) :
                                      LET cell == cellOf(rs[i], getHeaderKey(h))
                                      IN  cell.value = Undefined /\ ~cell.path.defined
                          /\ (h.complex /\ headerKeysDistinct /\ singleIn(row, h)) =>
                                /\ Len(rs) = Len(without)
                                /\ \A i \in 1..Len(rs) :
                                      LET cell == cellOf(rs[i], getHeaderKey(h))
                                          below == SubSeq(cell.path.segs,
                                                          Len(pathPrefix) + 2,
                                                          Len(cell.path.segs))
                                      IN  cell.path.defined =>
                                            \A s \in 1..Len(below) :
                                                below[s].seg = "key"

-----------------------------------------------------------------------------
(* The shape of a decoded node (xmlToJson lines 195-260) *)

\* the text of an element: the character data of its text nodes and CDATA
\* sections, each trimmed, concatenated in document order
RECURSIVE characterData(_)
characterData(childNodes) ==
    IF Len(childNodes) = 0 THEN <<>>
    ELSE (IF Head(childNodes).nodeType \in {3, 4}
          THEN trim(Head(childNodes).nodeValue) ELSE <<>>)
         \o characterData(Tail(childNodes))

\* value is the decoded form of the element node, and of every element
\* below it
RECURSIVE decodedShape(_, _)
decodedShape(node, value) ==
    LET names == childNames(node.childNodes, <<>>)
        text  == characterData(node.childNodes)
    IN  IF Len(node.attributes) = 0 /\ Len(names) = 0
        THEN value = Str(text)
        ELSE /\ value.t = "object"
             /\ hasKey(value.kv, AttributesKey) <=> Len(node.attributes) > 0
             /\ hasKey(value.kv, AttributesKey) =>
                   valueOf(value.kv, AttributesKey)
                     = Obj([i \in 1..Len(node.attributes) |->
                              Prop(node.attributes[i].nodeName,
                                   Str(node.attributes[i].nodeValue))])
             /\ hasKey(value.kv, TextKey) =>
                   (Len(text) > 0 /\ valueOf(value.kv, TextKey) = Str(text))
             /\ \A i \in 1..Len(value.kv) :
                   \/ value.kv[i].k \in {AttributesKey, TextKey}
                   \/ \E n \in 1..Len(names) : names[n] = value.kv[i].k
             /\ \A n \in 1..Len(names) :
                   LET kids == elementsNamed(node, names[n])
                   IN  /\ hasKey(value.kv, names[n])
                       /\ LET v == valueOf(value.kv, names[n])
                          IN  IF Len(kids) = 1 THEN decodedShape(kids[1], v)
                              ELSE /\ isArray(v)
                                   /\ Len(v.items) = Len(kids)
                                   /\ \A i \in 1..Len(kids) :
                                         decodedShape(kids[i], v.items[i])

\* C24: xmlToJson returns a scalar string exactly when the element has
\* neither attributes nor child elements: its concatenated, individually
\* trimmed text, '' for an empty element; otherwise an object holding the
\* child keys and '@attributes', with '#text' only when the trimmed text is
\* not empty; and every element of the XML is present in the decoded document.
C24_DecodedNodeShape ==
    codecPc \in {"decoded", "encoded", "reparsed"} =>
        decodedShape(parseFromString(xmlSource).node, decoded.doc)

-----------------------------------------------------------------------------
(* The advanced filter's predicate applied to one target
   (checkPathInObject, DataTable.jsx lines 251-281) *)

NameL == <<"L">>
NameN == <<"N">>

PathTargets ==
    { Obj(<<Prop(NameL, Obj(<<Prop(NameN, Str(<<"A">>))>>))>>),
      Obj(<<Prop(NameL, Obj(<<Prop(NameN, Str(<<"b">>))>>))>>),
      Obj(<<Prop(<<"l">>, Obj(<<Prop(<<"n">>, Str(<<"A">>))>>))>>),
      \* a sequence on the way
      Obj(<<Prop(NameL, Arr(<<Obj(<<Prop(NameN, Str(<<"b">>))>>),
                              Obj(<<Prop(NameN, Str(<<"A">>))>>)>>))>>),
      Obj(<<Prop(NameL, Arr(<<Obj(<<Prop(NameN, Arr(<<Str(<<"b">>)>>))>>),
                              Str(<<"A">>),
                              Obj(<<Prop(NameN, Str(<<"A">>))>>)>>))>>),
      \* a sequence at the end
      Obj(<<Prop(NameL, Obj(<<Prop(NameN, Arr(<<Str(<<"b">>), Str(<<"A">>)>>))>>))>>),
      Obj(<<Prop(NameL, Obj(<<Prop(NameN, Arr(<<Str(<<"b">>), Str(<<"b">>)>>))>>))>>),
      \* an object at the end, a scalar on the way, a missing key
      Obj(<<Prop(NameL, Obj(<<Prop(NameN, Obj(<<Prop(<<"X">>, Str(<<"q">>))>>))>>))>>),
      Obj(<<Prop(NameL, Str(<<"A">>))>>),
      Obj(<<Prop(<<"M">>, Obj(<<Prop(NameN, Str(<<"A">>))>>))>>),
      \* the target is a sequence
      Arr(<<Obj(<<Prop(NameL, Obj(<<Prop(NameN, Str(<<"b">>))>>))>>),
            Obj(<<Prop(NameL, Obj(<<Prop(NameN, Str(<<"A">>))>>))>>)>>),
      Arr(<<Str(<<"A">>), Obj(<<Prop(NameL, Str(<<"b">>))>>)>>) }

\* the key paths the popover builds ([...drilldownPath, selectedKey]) and
\* the empty path
KeyPaths ==
    { <<>>, <<NameL>>, <<NameN>>, <<NameL, NameN>>, <<<<"l">>, <<"n">>>>,
      <<NameL, NameN, <<"X">>>> }

PathQueries ==
    { <<>>, <<"a">>, <<"b">>, <<"z">>, <<"\"", "a", "\"">>, <<"a", " ", "b">> }

PathInit ==
    /\ FlatIdle
    /\ CleanIdle
    /\ CodecIdle
    /\ StoreIdle
    /\ RowsIdle
    /\ lookupDoc = Undefined
    /\ lookupVariant = <<>>
    /\ lookupResult = [atPath |-> Undefined, atVariant |-> Undefined]
    /\ lookupPc = "idle"
    /\ lookupPath \in KeyPaths
    /\ filterQuery \in PathQueries
    /\ cellValue \in PathTargets
    /\ Len(lookupPath) = 0 => cellValue.t = "object"
    /\ conditions = <<>>
    /\ passes = FALSE
    /\ filterPc = "input"

\* rowMatchesAdvancedFilter, line 348:
\* checkPathInObject(columnValue, filter.key, filter.conditions)
CheckPath ==
    /\ filterPc = "parsed"
    /\ passes' = checkPathInObject(cellValue, lookupPath, conditions)
    /\ filterPc' = "checked"
    /\ UNCHANGED <<filterQuery, cellValue, conditions, notFilter>>

PathNext == ParseQuery \/ CheckPath

SpecPath == PathInit /\ [][PathNext]_vars

\* the values at which some way of following the key path from v ends:
\* keys are matched case-insensitively, any element of a sequence met on the
\* way or at the end may be chosen
RECURSIVE pathEnds(_, _)
pathEnds(v, keyPath) ==
    IF isArray(v)
    THEN UNION { pathEnds(v.items[i], keyPath) : i \in 1..Len(v.items) }
    ELSE IF Len(keyPath) = 0 THEN {v}
    ELSE IF v.t = "object"
            /\ \E i \in 1..Len(v.kv) : toLowerCase(v.kv[i].k) = toLowerCase(Head(keyPath))
    THEN LET at == CHOOSE i \in 1..Len(v.kv) :
                      /\ toLowerCase(v.kv[i].k) = toLowerCase(Head(keyPath))
                      /\ \A j \in 1..(i - 1) :
                            toLowerCase(v.kv[j].k) # toLowerCase(Head(keyPath))
         IN  pathEnds(v.kv[at].v, Tail(keyPath))
    ELSE {}

\* C25: checkPathInObject is true iff some way of following the key path
\* from the target (keys matched case-insensitively, any one element chosen
\* at a sequence) ends at a value, or at an element of a final sequence, for
\* which testValue holds; it is false when a key is missing, when a scalar is
\* met before the path is exhausted, and for an empty key path on an object.
C25_AdvancedPredicateIsExistential ==
    filterPc = "checked" =>
        passes = IF Len(lookupPath) = 0 THEN FALSE
                 ELSE \E v \in pathEnds(cellValue, lookupPath) :
                         testValue(v, conditions)

\* a path through a sequence whose second element alone matches has been
\* checked and found to match
C25_Witness ==
    /\ filterPc = "checked"
    /\ passes
    /\ Len(conditions) > 0
    /\ lookupPath = <<NameL, NameN>>
    /\ cellValue.t = "object"
    /\ isArray(cellValue.kv[1].v)
    /\ ~checkPathInObject(cellValue.kv[1].v.items[1], <<NameN>>, conditions)

-----------------------------------------------------------------------------
(* The actions that only read the document: the store actions of the view
   (store.js lines 33-84) and the table's flattening and filtering, each on
   its own inputs, in any order after a file is loaded *)

\* one table: the row with a two-item branch, the composite column and a
\* plain one, with or without a filter on the composite column
FrameInit ==
    /\ TableInit
    /\ data = Arr(<<TableItem(Arr(<<ItemC("1"), ItemC("2")>>), <<"x">>,
                              Obj(<<Prop(<<"F">>, Str(<<"p">>))>>))>>)
    /\ headers = <<ColumnD, ColumnBC>>
    /\ filtersForTable \in
          { <<>>, <<Prop(getHeaderKey(ColumnBC), SimpleFilter(<<"2">>))>> }

FrameNext ==
    \/ Upload
    \/ UploadText
    \/ ViewNode
    \/ GoBack
    \/ SelectColumnsOf
    \/ SetColumns
    \/ SetFilter
    \/ Flatten
    \/ ApplyFilters
    \/ ClickDelete

SpecFrame == FrameInit /\ [][FrameNext]_vars

ReadingActions ==
    {"setViewingNodePath", "goBack", "setNodeForColumnSelection",
     "setTableColumns", "setTableFilter"}

\* C26: setViewingNodePath, goBack, setNodeForColumnSelection,
\* setTableColumns and setTableFilter leave xmlDoc unchanged, and flattening
\* and filtering leave the document and the collection they read unchanged.
C26_OnlyEditsMutateDocument ==
    [][ /\ (storeVars' # storeVars /\ call'.op \in ReadingActions) =>
              xmlDoc' = xmlDoc
        /\ flatPc' # flatPc => (xmlDoc' = xmlDoc /\ data' = data)
      ]_vars

\* after navigation, a column selection and a filter on a loaded document,
\* with the table flattened and filtered, the document is the loaded one
C26_Witness ==
    /\ ~xmlDoc.isNull
    /\ Len(viewingHistory) > 0
    /\ Len(tableFilters) > 0
    /\ Len(tableColumns) > 0
    /\ ~nodeForColumnSelection.isNull
    /\ flatPc = "filtered"
    /\ xmlDoc.doc = Obj(<<Prop(<<"R","O","O","T">>, parseXML(writeNode(LedgerTree)).doc)>>)

-----------------------------------------------------------------------------
(* Editing the cell of an absent field (ValueRenderer lines 22-25,
   EditableCell.handleBlur lines 17-26, updateNodeValue lines 86-94) *)

\* C27: committing a non-empty text in the empty cell of an absent field,
\* whose path is undefined, stores that text in the document and raises no
\* error.
C27_AbsentCellEditStored ==
    [][ ( /\ call' # call
          /\ call'.op = "updateNodeValue"
          /\ ~call'.path.defined
          /\ truthy(call'.value) )
        => ( /\ thrown' = ""
             /\ ~revoked'
             /\ ~xmlDoc'.isNull
             /\ call'.value.s \in stringsOf(xmlDoc'.doc) )
      ]_vars

-----------------------------------------------------------------------------
(* Navigation history (store.js setViewingNodePath lines 33-49,
   goBack lines 51-56) *)

\* JSON.stringify of a path or of null
pathJson(path) == IF path.defined THEN stringify(path.segs) ELSE <<"n","u","l","l">>

noNullEntry(history) == \A i \in 1..Len(history) : history[i].defined

\* a navigation to the path shown changes nothing, and goBack pops the last
\* entry into viewingNodePath, or changes nothing on an empty history
navigationBasics ==
    /\ noNullEntry(viewingHistory')
    /\ (storeStep("setViewingNodePath") /\ pathJson(call'.path) = pathJson(viewingNodePath))
          => (viewingNodePath' = viewingNodePath /\ viewingHistory' = viewingHistory)
    /\ (storeStep("goBack") /\ Len(viewingHistory) > 0)
          => /\ viewingNodePath' = viewingHistory[Len(viewingHistory)]
             /\ viewingHistory' = SubSeq(viewingHistory, 1, Len(viewingHistory) - 1)
    /\ (storeStep("goBack") /\ Len(viewingHistory) = 0)
          => (viewingNodePath' = viewingNodePath /\ viewingHistory' = viewingHistory)

\* the navigation pushes the path it leaves, so that goBack's pop restores
\* both the path and the history
pushesCurrent ==
    /\ viewingNodePath' = call'.path
    /\ viewingHistory' = Append(viewingHistory, viewingNodePath)

-----------------------------------------------------------------------------
(* The keys of the columns (getHeaderKey lines 10-16, the values map of
   flattenRow lines 59-104, the columns pushed by
   ColumnSelectorModal.handleMergeIntoParent lines 181-229) *)

\* the column definitions of the table, each once
columnDefinitions == { headers[k] : k \in 1..Len(headers) }

\* C29: two distinct column definitions of a table's column list, plain
\* names and composite {parent, child} pairs with tag names that may contain
\* '.', have distinct keys, so that every flat row holds one cell per
\* definition and no column's cell is overwritten by another column's.
C29_ColumnKeysUnique ==
    flatPc = "done" =>
        /\ \A g, h \in columnDefinitions : g # h => getHeaderKey(g) # getHeaderKey(h)
        /\ \A i \in 1..Len(allFlatRows) :
              Len(allFlatRows[i].values) = Cardinality(columnDefinitions)

-----------------------------------------------------------------------------
(* The cleaning report (cleanXML lines 141-173, shown by
   CleaningLogNotification lines 4-12 when the count is not 0) *)

\* the report of one call of cleanXML agrees with what the call removed
consistentReport(input, result) ==
    /\ result.removedCount = Len(input) - Len(result.cleaned)
    /\ result.removedCount >= 0
    /\ Len(result.log) > 0 <=> result.removedCount > 0
    /\ result.removedCount = 0 => result.cleaned = input

\* C30: for every input text cleanXML's removedCount is the length of the
\* input minus the length of the output and is not negative, the log is
\* non-empty exactly when removedCount > 0, and with removedCount = 0 the
\* output is the input.
C30_ReportMatchesCleaning ==
    /\ cleanPc \in {"cleaned", "recleaned"} => consistentReport(xmlString, firstClean)
    /\ cleanPc = "recleaned" => consistentReport(firstClean.cleaned, secondClean)

\* a text of a NUL, a byte order mark and a control has been cleaned with
\* three log lines, and cleaning its output again reports nothing
C30_Witness ==
    /\ cleanPc = "recleaned"
    /\ Len(firstClean.log) = 3
    /\ firstClean.removedCount = 3
    /\ secondClean.removedCount = 0
    /\ secondClean.log = <<>>

====
